---- MODULE Spec2Model ----
(***************************************************************************)
(* A model of pistol-rs: the service-probe database parser                 *)
(* (src/service/dbparser.rs), target validation (src/lib.rs) and the ICMP  *)
(* ping technique (src/ping/icmp.rs).                                      *)
(*                                                                         *)
(* Strings are sequences of one-character strings, so that split, trim,    *)
(* contains, starts_with and parse act on characters as the Rust code      *)
(* does.  A fallible call yields a record [kind, val, err] whose kind is   *)
(* "Ok", "Err" (an error value returned through `?`) or "Panic" (an        *)
(* index out of bounds, an explicit panic!).                               *)
(***************************************************************************)
EXTENDS Integers, Sequences, FiniteSets, TLC

VARIABLES
    ex_pc, ex_lines, ex_result,
    h_pc, h_family, h_addr, h_ports, h_source, h_lookups, h_global, h_result,
    p_pc, p_send, p_result,
    n_pc, n_lines, n_result, n_entry, n_resp, n_found,
    s_pc, s_args, s_chan, s_sendout, s_net, s_protocol, s_packet, s_sent, s_attempts, s_seen, s_result,
    t_pc, t_ident, t_wire, t_start, t_next, t_ret, t_result, t_sends, t_answered, t_noise,
    b_pc, b_in, b_buff,
    q_pc, q_items, q_ports, q_sslports, q_exclude,
    g_pc, g_op, g_hosts, g_pool, g_ports, g_source, g_result

vars == << ex_pc, ex_lines, ex_result,
           h_pc, h_family, h_addr, h_ports, h_source, h_lookups, h_global, h_result,
           p_pc, p_send, p_result,
           n_pc, n_lines, n_result, n_entry, n_resp, n_found,
           s_pc, s_args, s_chan, s_sendout, s_net, s_protocol, s_packet, s_sent, s_attempts, s_seen, s_result,
           t_pc, t_ident, t_wire, t_start, t_next, t_ret, t_result, t_sends, t_answered, t_noise,
           b_pc, b_in, b_buff,
           q_pc, q_items, q_ports, q_sslports, q_exclude,
           g_pc, g_op, g_hosts, g_pool, g_ports, g_source, g_result >>

exVars == << ex_pc, ex_lines, ex_result >>
hVars == << h_pc, h_family, h_addr, h_ports, h_source, h_lookups, h_global, h_result >>
pVars == << p_pc, p_send, p_result >>
nVars == << n_pc, n_lines, n_result, n_entry, n_resp, n_found >>
sVars == << s_pc, s_args, s_chan, s_sendout, s_net, s_protocol, s_packet, s_sent, s_attempts, s_seen, s_result >>
\* The components added after the first four, as one frame.
tVars == << t_pc, t_ident, t_wire, t_start, t_next, t_ret, t_result, t_sends, t_answered, t_noise >>
bVars == << b_pc, b_in, b_buff >>
qVars == << q_pc, q_items, q_ports, q_sslports, q_exclude >>
gVars == << g_pc, g_op, g_hosts, g_pool, g_ports, g_source, g_result >>
xVars == << sVars, tVars, bVars, qVars, gVars >>
\* Everything but one of the later components.
notS == << exVars, hVars, pVars, nVars, tVars, bVars, qVars, gVars >>
notT == << exVars, hVars, pVars, nVars, sVars, bVars, qVars, gVars >>
notB == << exVars, hVars, pVars, nVars, sVars, tVars, qVars, gVars >>
notQ == << exVars, hVars, pVars, nVars, sVars, tVars, bVars, gVars >>
notG == << exVars, hVars, pVars, nVars, sVars, tVars, bVars, qVars >>

(***************************************************************************)
(* Bounds of the model.                                                    *)
(***************************************************************************)
\* Longest Exclude list (entries per line) the exclude inputs hold.
MaxEntries == 3
\* Longest service-probes file (lines) the parser inputs hold.
MaxLines == 3
\* Longest port list (items) the port-list inputs hold.
MaxPortItems == 2
\* Most addresses a subnet enumerates, and most hosts of a host vector.
MaxSubnetHosts == 2

(***************************************************************************)
(* Results.                                                                *)
(***************************************************************************)
Ok(v) == [kind |-> "Ok", val |-> v, err |-> ""]
Err(e) == [kind |-> "Err", val |-> <<>>, err |-> e]
Panic(e) == [kind |-> "Panic", val |-> <<>>, err |-> e]
IsOk(r) == r.kind = "Ok"

\* Option<T>
None == [some |-> FALSE, val |-> <<>>]
Some(v) == [some |-> TRUE, val |-> v]

(***************************************************************************)
(* Strings: str::split, str::trim, str::contains, str::starts_with,        *)
(* [&str]::join, str::replace, str::parse as dbparser.rs uses them.        *)
(***************************************************************************)
Digits == <<"0", "1", "2", "3", "4", "5", "6", "7", "8", "9">>
IsDigit(c) == \E i \in 1..10 : Digits[i] = c
DigitVal(c) == (CHOOSE i \in 1..10 : Digits[i] = c) - 1
IsSpace(c) == c \in {" ", "\t", "\n", "\r"}

\* s.split(c): the pieces between the occurrences of c; never empty.
Split(s, c) ==
    LET at == {i \in 1..Len(s) : s[i] = c}
        n == Cardinality(at)
        pos(k) == IF k = 0 THEN 0
                  ELSE IF k = n + 1 THEN Len(s) + 1
                  ELSE CHOOSE p \in at : Cardinality({q \in at : q <= p}) = k
    IN [k \in 1..(n + 1) |-> SubSeq(s, pos(k - 1) + 1, pos(k) - 1)]

\* parts.join(c)
RECURSIVE Join(_, _)
Join(parts, c) ==
    IF parts = <<>> THEN <<>>
    ELSE IF Len(parts) = 1 THEN parts[1]
    ELSE parts[1] \o <<c>> \o Join(Tail(parts), c)

RECURSIVE TrimStart(_)
TrimStart(s) ==
    IF s # <<>> /\ IsSpace(Head(s)) THEN TrimStart(Tail(s)) ELSE s

RECURSIVE TrimEnd(_)
TrimEnd(s) ==
    IF s # <<>> /\ IsSpace(s[Len(s)]) THEN TrimEnd(SubSeq(s, 1, Len(s) - 1)) ELSE s

Trim(s) == TrimEnd(TrimStart(s))

StartsWith(s, pre) ==
    Len(pre) <= Len(s) /\ SubSeq(s, 1, Len(pre)) = pre

Contains(s, sub) ==
    \E i \in 1..(Len(s) - Len(sub) + 1) : SubSeq(s, i, i + Len(sub) - 1) = sub

\* s.replace(from, to): every non-overlapping occurrence, left to right.
RECURSIVE Replace(_, _, _)
Replace(s, from, to) ==
    IF s = <<>> THEN <<>>
    ELSE IF StartsWith(s, from) THEN to \o Replace(SubSeq(s, Len(from) + 1, Len(s)), from, to)
    ELSE <<Head(s)>> \o Replace(Tail(s), from, to)

\* parts[i..] of a Rust slice, 0-based; the caller checks i <= len.
SliceFrom(parts, i) == SubSeq(parts, i + 1, Len(parts))

\* The value of a digit string, saturating above limit (no wrap-around).
RECURSIVE DigitsValue(_, _, _)
DigitsValue(s, acc, limit) ==
    IF s = <<>> THEN acc
    ELSE LET v == acc * 10 + DigitVal(Head(s)) IN
         DigitsValue(Tail(s), IF v > limit THEN limit + 1 ELSE v, limit)

\* str::parse for an unsigned integer type with maximum `limit`: an optional
\* leading "+", then at least one digit, nothing else, and no overflow.
ParseUnsigned(s, limit) ==
    LET body == IF s # <<>> /\ Head(s) = "+" THEN Tail(s) ELSE s IN
    IF body = <<>> THEN Err("ParseIntError")
    ELSE IF \E i \in 1..Len(body) : ~IsDigit(body[i]) THEN Err("ParseIntError")
    ELSE LET v == DigitsValue(body, 0, limit) IN
         IF v > limit THEN Err("ParseIntError") ELSE Ok(v)

U16Max == 65535
ParseU16(s) == ParseUnsigned(s, U16Max)

\* start..=end of u16 as the pushed ports, in order; empty when start > end.
RangeInclusive(start, end) ==
    IF start > end THEN <<>> ELSE [i \in 1..(end - start + 1) |-> start + i - 1]

(***************************************************************************)
(* nsp_exclued_parser (dbparser.rs 266-323).                               *)
(***************************************************************************)
\* One `a-b` token: split on "-", parse [0] and [1] (index [1] exists since
\* the caller saw a "-" in some token, but not always in this one).
ParseRange(tok) ==
    LET sp == Split(tok, "-") IN
    LET start == ParseU16(sp[1]) IN
    IF ~IsOk(start) THEN start
    ELSE IF Len(sp) < 2 THEN Panic("index out of bounds")
    ELSE LET end == ParseU16(sp[2]) IN
         IF ~IsOk(end) THEN end
         ELSE Ok(RangeInclusive(start.val, end.val))

\* The token the "T" branch splits on "-": ex_split[1] (line 282).
TcpRangeToken(ex_split, exclued_split) == ex_split[2]

\* The token the "U" branch splits on "-": exclued_split[1] (line 296), the
\* second entry of the whole list, not ex_split[1].
UdpRangeToken(ex_split, exclued_split) ==
    IF Len(exclued_split) < 2 THEN <<>> ELSE exclued_split[2]

UdpRangeTokenPresent(exclued_split) == Len(exclued_split) >= 2

\* The body of `for ex in &exclued_split` for one entry: the ports it adds
\* to each list, as Ok([ports, tcp_ports, udp_ports]), or the failure.
ExcludeEntry(ex, exclued_split) ==
    LET none == [ports |-> <<>>, tcp_ports |-> <<>>, udp_ports |-> <<>>] IN
    IF Contains(ex, <<":">>) THEN
        LET ex_split == Split(ex, ":") IN
        IF ex_split[1] = <<"T">> THEN
            IF Contains(ex_split[2], <<"-">>) THEN
                LET r == ParseRange(TcpRangeToken(ex_split, exclued_split)) IN
                IF IsOk(r) THEN Ok([none EXCEPT !.tcp_ports = r.val]) ELSE r
            ELSE
                LET p == ParseU16(ex_split[2]) IN
                IF IsOk(p) THEN Ok([none EXCEPT !.tcp_ports = <<p.val>>]) ELSE p
        ELSE IF ex_split[1] = <<"U">> THEN
            IF Contains(ex_split[2], <<"-">>) THEN
                IF ~UdpRangeTokenPresent(exclued_split) THEN Panic("index out of bounds")
                ELSE
                    LET r == ParseRange(UdpRangeToken(ex_split, exclued_split)) IN
                    IF IsOk(r) THEN Ok([none EXCEPT !.udp_ports = r.val]) ELSE r
            ELSE
                LET p == ParseU16(ex_split[2]) IN
                IF IsOk(p) THEN Ok([none EXCEPT !.udp_ports = <<p.val>>]) ELSE p
        ELSE Ok(none)
    ELSE
        LET p == ParseU16(ex) IN
        IF IsOk(p) THEN Ok([none EXCEPT !.ports = <<p.val>>]) ELSE p

\* The loop over the entries from index i, with the lists built so far.
RECURSIVE ExcludeEntries(_, _, _)
ExcludeEntries(exclued_split, i, acc) ==
    IF i > Len(exclued_split) THEN Ok(acc)
    ELSE LET r == ExcludeEntry(exclued_split[i], exclued_split) IN
         IF ~IsOk(r) THEN r
         ELSE ExcludeEntries(exclued_split, i + 1,
                  [ports |-> acc.ports \o r.val.ports,
                   tcp_ports |-> acc.tcp_ports \o r.val.tcp_ports,
                   udp_ports |-> acc.udp_ports \o r.val.udp_ports])

\* The entries of an Exclude line (lines 273-275).
ExcludeSplit(line) ==
    LET line_split == Split(line, " ") IN
    LET exclued == Join(SliceFrom(line_split, 1), " ") IN
    LET raw == Split(exclued, ",") IN
    [i \in 1..Len(raw) |-> Trim(raw[i])]

Str_Exclude == <<"E", "x", "c", "l", "u", "d", "e">>

\* The loop over the lines without the break of line 314: every Exclude
\* line adds its entries to the lists.
RECURSIVE ExcludeEveryLine(_, _)
ExcludeEveryLine(lines, acc) ==
    IF lines = <<>> THEN Ok(acc)
    ELSE IF StartsWith(Head(lines), Str_Exclude)
         THEN LET r == ExcludeEntries(ExcludeSplit(Head(lines)), 1, acc) IN
              IF IsOk(r) THEN ExcludeEveryLine(Tail(lines), r.val) ELSE r
         ELSE ExcludeEveryLine(Tail(lines), acc)

nsp_exclued_parser_NoBreak(lines) ==
    ExcludeEveryLine(lines, [ports |-> <<>>, tcp_ports |-> <<>>, udp_ports |-> <<>>])

\* The first line that starts with "Exclude" decides the result (break, 314).
RECURSIVE nsp_exclued_parser(_)
nsp_exclued_parser(lines) ==
    LET empty == [ports |-> <<>>, tcp_ports |-> <<>>, udp_ports |-> <<>>] IN
    IF lines = <<>> THEN Ok(empty)
    ELSE IF StartsWith(Head(lines), Str_Exclude)
         THEN ExcludeEntries(ExcludeSplit(Head(lines)), 1, empty)
         ELSE nsp_exclued_parser(Tail(lines))

(***************************************************************************)
(* Inputs of nsp_exclued_parser: files of at most one leading line and an  *)
(* Exclude line listing up to MaxEntries entries and at most one line     *)
(* after it, or no Exclude line.                                           *)
(***************************************************************************)
E_T9100 == <<"T", ":", "9", "1", "0", "0">>
E_U161_162 == <<"U", ":", "1", "6", "1", "-", "1", "6", "2">>
E_53 == <<"5", "3">>
E_sp53 == <<" ", "5", "3">>
E_T1_3 == <<"T", ":", "1", "-", "3">>
E_U7 == <<"U", ":", "7">>
E_5_6 == <<"5", "-", "6">>
E_x == <<"x">>

ExcludeEntryPool == {E_T9100, E_U161_162, E_53, E_sp53, E_T1_3, E_U7, E_5_6, E_x}

ExcludeLine(entries) == Str_Exclude \o <<" ">> \o Join(entries, ",")

L_Comment == <<"#", " ", "c">>

ExcludeLists == UNION {[1..n -> ExcludeEntryPool] : n \in 1..MaxEntries}

\* What may follow the Exclude line: a comment, a blank line, or a second
\* Exclude line of one entry.
L_Blank == <<>>
ExcludeTails == {L_Comment, L_Blank} \cup {ExcludeLine(<<e>>) : e \in ExcludeEntryPool}

ExcludeInputs ==
    {<<>>, <<L_Comment>>, <<L_Blank, L_Comment>>}
    \cup {<<ExcludeLine(es)>> : es \in ExcludeLists}
    \cup {<<L_Comment, ExcludeLine(es)>> : es \in ExcludeLists}
    \cup {<<ExcludeLine(es), t>> : es \in ExcludeLists, t \in ExcludeTails}

NoResult == [kind |-> "None", val |-> <<>>, err |-> ""]

ExInit ==
    /\ ex_pc = "ready"
    /\ ex_lines \in ExcludeInputs
    /\ ex_result = NoResult

ExIdle ==
    /\ ex_pc = "idle"
    /\ ex_lines = <<>>
    /\ ex_result = NoResult

\* One call of nsp_exclued_parser on the file.
ExParse ==
    /\ ex_pc = "ready"
    /\ ex_result' = nsp_exclued_parser(ex_lines)
    /\ ex_pc' = "done"
    /\ UNCHANGED ex_lines
    /\ UNCHANGED << hVars, pVars, nVars, xVars >>

(***************************************************************************)
(* Address classification and Host::new / Host6::new (lib.rs 32-75,        *)
(* 223-274).                                                               *)
(***************************************************************************)
\* u8 >> n
ShiftRight(x, n) == x \div (2 ^ n)

\* is_private with `octets[1] > 16`: 172.16.x.x is taken for global.
Ipv4_is_private_OffByOne(octets) ==
    IF octets[1] = 10 THEN TRUE
    ELSE IF octets[1] = 192 /\ octets[2] = 168 THEN TRUE
    ELSE IF octets[1] = 172 /\ octets[2] > 16 /\ octets[2] <= 31 THEN TRUE
    ELSE FALSE

\* Ipv4Addr::is_global_x (lib.rs 33-45); octets is 1-based here.
Ipv4_is_private(octets) ==
    IF octets[1] = 10 THEN TRUE
    ELSE IF octets[1] = 192 /\ octets[2] = 168 THEN TRUE
    ELSE IF octets[1] = 172 /\ octets[2] >= 16 /\ octets[2] <= 31 THEN TRUE
    ELSE FALSE

Ipv4_is_global_x(octets) == ~Ipv4_is_private(octets)

\* Ipv6Addr::is_global_x (lib.rs 53-61).
Ipv6_is_local(octets) ==
    IF octets[1] = 254 /\ ShiftRight(octets[2], 6) = 2 THEN TRUE ELSE FALSE

Ipv6_is_global_x(octets) == ~Ipv6_is_local(octets)

\* IpAddr::is_global_x (lib.rs 69-74).
is_global_x(family, octets) ==
    IF family = "v4" THEN Ipv4_is_global_x(octets) ELSE Ipv6_is_global_x(octets)

\* What utils::find_source_ipv4 / find_source_ipv6 can hand back to
\* Host::new: Ok(Some(_)), Ok(None), or an error that `?` returns.
SourceOutcomes == {"some", "none", "err"}

\* Whether Host::new / Host6::new calls the source lookup (lib.rs 226, 259).
NeedsLookup(family, octets) == ~is_global_x(family, octets)

\* ports: Option<Vec<u16>> to the Host's ports (lib.rs 232-238).
HostPorts(ports) == IF ports.some THEN ports.val ELSE <<>>

\* Host::new with `None => ()`: a missing source interface is let through.
Host_new_NoneAccepted(family, octets, ports, source) ==
    IF NeedsLookup(family, octets) /\ source = "err" THEN Err("SourceLookupError")
    ELSE Ok([family |-> family, addr |-> octets, ports |-> HostPorts(ports)])

\* Host::new and Host6::new: the result with the lookup answering `source`.
Host_new(family, octets, ports, source) ==
    IF NeedsLookup(family, octets) /\ source = "err" THEN Err("SourceLookupError")
    ELSE IF NeedsLookup(family, octets) /\ source = "none" THEN Err("IllegalTarget")
    ELSE Ok([family |-> family, addr |-> octets, ports |-> HostPorts(ports)])

\* First two octets sampled around the edges of the private ranges.
V4First == {9, 10, 11, 114, 171, 172, 173, 191, 192, 193}
V4Second == {0, 15, 16, 17, 31, 32, 114, 167, 168, 169, 255}
V4Rest == {<<1, 23>>, <<0, 1>>, <<114, 114>>}
V4Addrs == {<<a, b>> \o r : a \in V4First, b \in V4Second, r \in V4Rest}

V6First == {32, 36, 253, 254, 255}
V6Second == {0, 1, 14, 63, 64, 127, 128, 129, 191, 192, 255}
\* The last 14 octets of fe80::20c:29ff:fe43:9c8c, of fec0::1 and of
\* 2001:da8:8000:1::80.
V6Rest == {<<0, 0, 0, 0, 0, 0, 2, 12, 41, 255, 254, 67, 156, 140>>,
           <<0, 0, 0, 0, 0, 0, 0, 0, 0, 0, 0, 0, 0, 1>>,
           <<13, 168, 128, 0, 0, 1, 0, 0, 0, 0, 0, 0, 0, 128>>}
V6Addrs == {<<a, b>> \o r : a \in V6First, b \in V6Second, r \in V6Rest}

PortsInputs == {None, Some(<<>>), Some(<<22, 23>>)}

HInit ==
    /\ h_pc = "ready"
    /\ h_family \in {"v4", "v6"}
    /\ h_addr \in (IF h_family = "v4" THEN V4Addrs ELSE V6Addrs)
    /\ h_ports \in PortsInputs
    /\ h_source \in SourceOutcomes
    /\ h_lookups = 0
    /\ h_global = "unknown"
    /\ h_result = NoResult

HIdle ==
    /\ h_pc = "idle"
    /\ h_family = "v4"
    /\ h_addr = <<>>
    /\ h_ports = None
    /\ h_source = "none"
    /\ h_lookups = 0
    /\ h_global = "unknown"
    /\ h_result = NoResult

\* addr.is_global_x(), as tests::test_ip_address calls it.
HIsGlobal ==
    /\ h_pc = "ready"
    /\ h_global' = is_global_x(h_family, h_addr)
    /\ h_pc' = "classified"
    /\ UNCHANGED << h_family, h_addr, h_ports, h_source, h_lookups, h_result >>
    /\ UNCHANGED << exVars, pVars, nVars, xVars >>

\* Host::new(addr, ports) / Host6::new(addr, ports).
HNew ==
    /\ h_pc \in {"ready", "classified"}
    /\ h_result' = Host_new(h_family, h_addr, h_ports, h_source)
    /\ h_lookups' = IF NeedsLookup(h_family, h_addr) THEN h_lookups + 1 ELSE h_lookups
    /\ h_pc' = "done"
    /\ UNCHANGED << h_family, h_addr, h_ports, h_source, h_global >>
    /\ UNCHANGED << exVars, pVars, nVars, xVars >>

(***************************************************************************)
(* send_icmp_ping_packet (icmp.rs 33-135): the verdict from what           *)
(* layer3_ipv4_send returns.                                               *)
(***************************************************************************)
\* Ipv4Packet::new needs a whole IPv4 header, IcmpPacket::new a whole ICMP
\* header (type, code, checksum).
Ipv4MinLen == 20
IcmpMinLen == 4

IpProtoIcmp == 1
IcmpEchoReply == 0
IcmpDestinationUnreachable == 3

\* codes_1 (icmp.rs 75-82) and codes_2 (icmp.rs 108-110).
codes_1 == <<2, 1, 3, 9, 10, 13>>
codes_2 == <<0>>
VecContains(v, x) == \E i \in 1..Len(v) : v[i] = x

\* Ipv4Packet::new(&r) (icmp.rs 99) and IcmpPacket::new(payload) (icmp.rs 103).
Ipv4Parses(r) == r.len >= Ipv4MinLen
IcmpParses(r) == r.len - Ipv4MinLen >= IcmpMinLen

\* The response parses as IPv4 carrying ICMP (icmp.rs 99-104).
ParsedIcmp(ret) ==
    /\ ret.some
    /\ Ipv4Parses(ret.pkt)
    /\ ret.pkt.proto = IpProtoIcmp
    /\ IcmpParses(ret.pkt)

\* The match on `ret` looking for the echo request type 8 instead of the
\* echo reply.
PingStatusOf_EchoRequest(ret) ==
    IF ParsedIcmp(ret) /\ ret.pkt.icmp_type = 8 /\ VecContains(codes_2, ret.pkt.icmp_code)
    THEN "Up"
    ELSE "Down"

\* The match on `ret` reading type and code without the parses of lines
\* 99-104: any response whose bytes at those places say echo reply, code 0.
PingStatusOf_UnparsedAccepted(ret) ==
    IF ret.some /\ ret.pkt.icmp_type = IcmpEchoReply /\ VecContains(codes_2, ret.pkt.icmp_code)
    THEN "Up"
    ELSE "Down"

\* The match on `ret` (icmp.rs 97-134): the two early returns, else the
\* final Down of line 134.
PingStatusOf(ret) ==
    IF ParsedIcmp(ret) /\ ret.pkt.icmp_type = IcmpDestinationUnreachable
       /\ VecContains(codes_1, ret.pkt.icmp_code)
    THEN "Down"
    ELSE IF ParsedIcmp(ret) /\ ret.pkt.icmp_type # IcmpDestinationUnreachable
            /\ ret.pkt.icmp_type = IcmpEchoReply
            /\ VecContains(codes_2, ret.pkt.icmp_code)
    THEN "Up"
    ELSE "Down"

\* send_icmp_ping_packet: `?` returns the transport's error (icmp.rs 96).
send_icmp_ping_packet(send) ==
    IF send.kind = "Err" THEN Err("TransportError")
    ELSE Ok([status |-> PingStatusOf(send.ret), rtt |-> send.rtt])

PktLens == {0, 19, 20, 23, 24, 44}
PktProtos == {1, 6, 17}
PktTypes == {0, 3, 8, 11}
PktCodes == {0, 1, 2, 3, 4, 9, 10, 13, 14}
Packets == [len : PktLens, proto : PktProtos, icmp_type : PktTypes, icmp_code : PktCodes]
NoPacket == [len |-> 0, proto |-> 0, icmp_type |-> 0, icmp_code |-> 0]
Rtts == {"none", "rtt"}

SendOutcomes ==
    {[kind |-> "Err", ret |-> [some |-> FALSE, pkt |-> NoPacket], rtt |-> "none"]}
    \cup {[kind |-> "Ok", ret |-> [some |-> FALSE, pkt |-> NoPacket], rtt |-> t] : t \in Rtts}
    \cup {[kind |-> "Ok", ret |-> [some |-> TRUE, pkt |-> k], rtt |-> t] : k \in Packets, t \in Rtts}

PInit ==
    /\ p_pc = "ready"
    /\ p_send \in SendOutcomes
    /\ p_result = NoResult

PIdle ==
    /\ p_pc = "idle"
    /\ p_send = [kind |-> "Err", ret |-> [some |-> FALSE, pkt |-> NoPacket], rtt |-> "none"]
    /\ p_result = NoResult

\* One call of send_icmp_ping_packet.
PPing ==
    /\ p_pc = "ready"
    /\ p_result' = send_icmp_ping_packet(p_send)
    /\ p_pc' = "done"
    /\ UNCHANGED p_send
    /\ UNCHANGED << exVars, hVars, nVars, xVars >>

(***************************************************************************)
(* The fragment of the regex crate the service rules use: literals, ".",   *)
(* "^", "$", escapes, "|" between alternatives, groups without "|" inside, *)
(* and a leading (?i) or (?s).  Regex::new rejects unbalanced parentheses  *)
(* and a trailing backslash.                                               *)
(***************************************************************************)
LowerCase == <<"a", "b", "c", "d", "e", "f", "g", "h", "i", "j", "k", "l", "m", "n", "o", "p", "q", "r", "s", "t", "u", "v", "w", "x", "y", "z">>
UpperCase == <<"A", "B", "C", "D", "E", "F", "G", "H", "I", "J", "K", "L", "M", "N", "O", "P", "Q", "R", "S", "T", "U", "V", "W", "X", "Y", "Z">>

Fold(c) ==
    IF \E i \in 1..26 : UpperCase[i] = c
    THEN LowerCase[CHOOSE i \in 1..26 : UpperCase[i] = c]
    ELSE c

\* Unescaped "(" minus ")" seen so far never negative, and zero at the end.
RECURSIVE ParensBalanced(_, _)
ParensBalanced(s, depth) ==
    IF s = <<>> THEN depth = 0
    ELSE IF Head(s) = "\\" THEN Len(s) >= 2 /\ ParensBalanced(SubSeq(s, 3, Len(s)), depth)
    ELSE IF Head(s) = "(" THEN ParensBalanced(Tail(s), depth + 1)
    ELSE IF Head(s) = ")" THEN depth > 0 /\ ParensBalanced(Tail(s), depth - 1)
    ELSE ParensBalanced(Tail(s), depth)

Str_FlagI == <<"(", "?", "i", ")">>
Str_FlagS == <<"(", "?", "s", ")">>
Str_NulEscape == <<"\\", "x", "{", "0", "}">>

\* Regex::new(&pattern): the compiled rule, or the syntax error.
RegexNew(pattern) ==
    IF ~ParensBalanced(pattern, 0) THEN Err("regex::Error::Syntax")
    ELSE IF StartsWith(pattern, Str_FlagI)
         THEN Ok([src |-> SubSeq(pattern, 5, Len(pattern)), icase |-> TRUE, dotall |-> FALSE])
    ELSE IF StartsWith(pattern, Str_FlagS)
         THEN Ok([src |-> SubSeq(pattern, 5, Len(pattern)), icase |-> FALSE, dotall |-> TRUE])
    ELSE Ok([src |-> pattern, icase |-> FALSE, dotall |-> FALSE])

\* The atoms of one alternative.
RECURSIVE Atoms(_)
Atoms(s) ==
    IF s = <<>> THEN <<>>
    ELSE IF StartsWith(s, Str_NulEscape)
         THEN <<[k |-> "lit", c |-> "NUL"]>> \o Atoms(SubSeq(s, 6, Len(s)))
    ELSE IF Head(s) = "\\" /\ Len(s) >= 2
         THEN <<[k |-> "lit", c |-> s[2]]>> \o Atoms(SubSeq(s, 3, Len(s)))
    ELSE IF Head(s) = "." THEN <<[k |-> "any", c |-> "."]>> \o Atoms(Tail(s))
    ELSE IF Head(s) = "^" THEN <<[k |-> "bol", c |-> "^"]>> \o Atoms(Tail(s))
    ELSE IF Head(s) = "$" THEN <<[k |-> "eol", c |-> "$"]>> \o Atoms(Tail(s))
    ELSE IF Head(s) \in {"(", ")"} THEN Atoms(Tail(s))
    ELSE <<[k |-> "lit", c |-> Head(s)]>> \o Atoms(Tail(s))

\* The atoms match text from position i on.
RECURSIVE MatchAt(_, _, _, _)
MatchAt(atoms, re, text, i) ==
    IF atoms = <<>> THEN TRUE
    ELSE LET a == Head(atoms) IN
         IF a.k = "bol" THEN i = 1 /\ MatchAt(Tail(atoms), re, text, i)
         ELSE IF a.k = "eol" THEN i = Len(text) + 1 /\ MatchAt(Tail(atoms), re, text, i)
         ELSE IF a.k = "any"
              THEN /\ i <= Len(text)
                   /\ (re.dotall \/ text[i] # "\n")
                   /\ MatchAt(Tail(atoms), re, text, i + 1)
         ELSE /\ i <= Len(text)
              /\ IF re.icase THEN Fold(text[i]) = Fold(a.c) ELSE text[i] = a.c
              /\ MatchAt(Tail(atoms), re, text, i + 1)

\* Regex::is_match: some alternative matches somewhere in the text.
is_match(re, text) ==
    LET alts == Split(re.src, "|") IN
    \E n \in 1..Len(alts) : \E i \in 1..(Len(text) + 1) :
        MatchAt(Atoms(alts[n]), re, text, i)

(***************************************************************************)
(* ports_parser (dbparser.rs 66-83).                                       *)
(***************************************************************************)
RECURSIVE PortsItems(_, _, _)
PortsItems(ports_split, i, ret) ==
    IF i > Len(ports_split) THEN Ok(ret)
    ELSE LET ps == ports_split[i] IN
         LET r == IF Contains(ps, <<"-">>) THEN ParseRange(ps)
                  ELSE LET p == ParseU16(ps) IN IF IsOk(p) THEN Ok(<<p.val>>) ELSE p
         IN IF ~IsOk(r) THEN r ELSE PortsItems(ports_split, i + 1, ret \o r.val)

ports_parser(ports) ==
    LET raw == Split(ports, ",") IN
    PortsItems([i \in 1..Len(raw) |-> Trim(raw[i])], 1, <<>>)

(***************************************************************************)
(* str::parse::<u64>: the value is kept as its digits without leading      *)
(* zeros, so that no value is out of the model's integers.                 *)
(***************************************************************************)
RECURSIVE StripZeros(_)
StripZeros(s) ==
    IF Len(s) > 1 /\ Head(s) = "0" THEN StripZeros(Tail(s)) ELSE s

U64MaxDigits == <<"1", "8", "4", "4", "6", "7", "4", "4", "0", "7", "3", "7", "0", "9", "5", "5", "1", "6", "1", "5">>

\* a <= b for digit strings of one length.
RECURSIVE DigitsLeq(_, _)
DigitsLeq(a, b) ==
    IF a = <<>> THEN TRUE
    ELSE IF DigitVal(Head(a)) < DigitVal(Head(b)) THEN TRUE
    ELSE IF DigitVal(Head(a)) > DigitVal(Head(b)) THEN FALSE
    ELSE DigitsLeq(Tail(a), Tail(b))

ParseU64(s) ==
    LET body == IF s # <<>> /\ Head(s) = "+" THEN Tail(s) ELSE s IN
    IF body = <<>> THEN Err("ParseIntError")
    ELSE IF \E i \in 1..Len(body) : ~IsDigit(body[i]) THEN Err("ParseIntError")
    ELSE LET v == StripZeros(body) IN
         IF Len(v) > Len(U64MaxDigits) THEN Err("ParseIntError")
         ELSE IF Len(v) = Len(U64MaxDigits) /\ ~DigitsLeq(v, U64MaxDigits)
              THEN Err("ParseIntError")
         ELSE Ok(v)

(***************************************************************************)
(* nsp_parser (dbparser.rs 87-257).                                        *)
(***************************************************************************)
Str_Hash == <<"#">>
Str_Probe == <<"P", "r", "o", "b", "e">>
Str_match == <<"m", "a", "t", "c", "h">>
Str_softmatch == <<"s", "o", "f", "t", "m", "a", "t", "c", "h">>
Str_ports == <<"p", "o", "r", "t", "s">>
Str_sslports == <<"s", "s", "l", "p", "o", "r", "t", "s">>
Str_totalwaitms == <<"t", "o", "t", "a", "l", "w", "a", "i", "t", "m", "s">>
Str_tcpwrappedms == <<"t", "c", "p", "w", "r", "a", "p", "p", "e", "d", "m", "s">>
Str_rarity == <<"r", "a", "r", "i", "t", "y">>
Str_fallback == <<"f", "a", "l", "l", "b", "a", "c", "k">>
Str_TCP == <<"T", "C", "P">>
Str_UDP == <<"U", "D", "P">>
Str_no_payload == <<"n", "o", "-", "p", "a", "y", "l", "o", "a", "d">>
Str_mBar == <<"m", "|">>
Str_mEq == <<"m", "=">>
Str_BarI == <<"|", "i">>
Str_BarS == <<"|", "s">>
Str_SlashI == <<"/", "i">>
Str_SlashS == <<"/", "s">>
Str_Backslash0 == <<"\\", "0">>

\* The locals of nsp_parser as declared at lines 88-97.
ParserStart ==
    [ret |-> <<>>,
     probe_global |-> None,
     matchs_global |-> <<>>,
     softmatchs_global |-> <<>>,
     ports_global |-> None,
     sslports_global |-> None,
     totalwaitms_global |-> None,
     tcpwrappedms_global |-> None,
     rarity_global |-> None,
     fallback_gloabl |-> None]

\* The ServiceProbes built from the locals (lines 108-118 and 241-251).
BuildServiceProbes(st) ==
    [probe |-> st.probe_global.val,
     matchs |-> st.matchs_global,
     softmatchs |-> st.softmatchs_global,
     ports |-> st.ports_global,
     sslports |-> st.sslports_global,
     totalwaitms |-> st.totalwaitms_global,
     tcpwrappedms |-> st.tcpwrappedms_global,
     rarity |-> st.rarity_global,
     fallback |-> st.fallback_gloabl]

\* At a Probe line: push the block collected so far and reset the per-block
\* locals (lines 106-130).
PushAndReset(st) ==
    IF st.probe_global.some
    THEN [st EXCEPT !.ret = Append(@, BuildServiceProbes(st)),
                    !.matchs_global = <<>>,
                    !.softmatchs_global = <<>>,
                    !.ports_global = None,
                    !.sslports_global = None,
                    !.totalwaitms_global = None,
                    !.tcpwrappedms_global = None,
                    !.rarity_global = None,
                    !.fallback_gloabl = None]
    ELSE st

\* At the end of the input: push the last block (lines 239-256).
PushLast(st) ==
    IF st.probe_global.some THEN Append(st.ret, BuildServiceProbes(st)) ELSE st.ret

\* The Probe of a Probe line (lines 133-153).
ProbeOf(line) ==
    LET line_split == Split(line, " ") IN
    IF Len(line_split) < 2 THEN Panic("index out of bounds")
    ELSE IF line_split[2] # Str_TCP /\ line_split[2] # Str_UDP THEN Panic("new protocol")
    ELSE IF Len(line_split) < 3 THEN Panic("index out of bounds")
    ELSE
        LET probelast == Join(SliceFrom(line_split, 3), " ") IN
        LET raw == Split(probelast, "|") IN
        LET probelast_split == [i \in 1..Len(raw) |-> Trim(raw[i])] IN
        IF Len(probelast_split) < 2 THEN Panic("index out of bounds")
        ELSE Ok([protocol |-> IF line_split[2] = Str_TCP THEN "Tcp" ELSE "Udp",
                 probename |-> line_split[3],
                 probestring |-> probelast_split[2],
                 no_payload |-> Contains(probelast, Str_no_payload)])

\* The pieces of the regex spec (lines 159-165).
MatchlastSplit(matchlast) ==
    IF StartsWith(matchlast, Str_mBar) THEN Split(matchlast, "|")
    ELSE IF StartsWith(matchlast, Str_mEq) THEN Split(matchlast, "=")
    ELSE Split(matchlast, "%")

\* The pattern text handed to Regex::new (lines 166-172).
PatternText(matchlast, matchlast_split) ==
    LET flagged ==
            IF Contains(matchlast, Str_BarI) THEN matchlast_split[2] \o Str_SlashI
            ELSE IF Contains(matchlast, Str_BarS) THEN matchlast_split[2] \o Str_SlashS
            ELSE matchlast_split[2]
    IN Replace(flagged, Str_Backslash0, Str_NulEscape)

\* The Match of a match line (lines 156-181) or softmatch line (184-209).
MatchOf(line) ==
    LET line_split == Split(line, " ") IN
    IF Len(line_split) < 2 THEN Panic("index out of bounds")
    ELSE
        LET matchlast == Join(SliceFrom(line_split, 2), " ") IN
        LET matchlast_split == MatchlastSplit(matchlast) IN
        IF Len(matchlast_split) < 2 THEN Panic("index out of bounds")
        ELSE
            LET pattern == PatternText(matchlast, matchlast_split) IN
            LET re == RegexNew(pattern) IN
            IF ~IsOk(re) THEN re
            ELSE Ok([service |-> line_split[2],
                     pattern |-> pattern,
                     versioninfo |-> Join(SliceFrom(matchlast_split, 2), "|"),
                     re |-> re.val])

\* A `<name> <list>` line handed to ports_parser (lines 212-214, 217-219).
PortsOf(line) ==
    ports_parser(Join(SliceFrom(Split(line, " "), 1), " "))

\* A `<name> <u64>` line (lines 222-223, 226-227, 230-231).
U64Of(line) ==
    LET line_split == Split(line, " ") IN
    IF Len(line_split) < 2 THEN Panic("index out of bounds")
    ELSE ParseU64(line_split[2])

\* Lines the loop skips before looking at the directive (lines 99-103).
Skipped(line) ==
    IF Contains(line, Str_Hash) THEN TRUE
    ELSE IF Contains(line, Str_Exclude) THEN TRUE
    ELSE FALSE

\* One turn of `for line in lines` (lines 98-238): the locals afterwards, or
\* the failure that ends the call.
ParserStep(st, line) ==
    IF Skipped(line) THEN Ok(st)
    ELSE IF StartsWith(line, Str_Probe) THEN
        LET pushed == PushAndReset(st) IN
        LET p == ProbeOf(line) IN
        IF IsOk(p) THEN Ok([pushed EXCEPT !.probe_global = Some(p.val)]) ELSE p
    ELSE IF StartsWith(line, Str_match) THEN
        LET m == MatchOf(line) IN
        IF IsOk(m) THEN Ok([st EXCEPT !.matchs_global = Append(@, m.val)]) ELSE m
    ELSE IF StartsWith(line, Str_softmatch) THEN
        LET m == MatchOf(line) IN
        IF IsOk(m) THEN Ok([st EXCEPT !.softmatchs_global = Append(@, m.val)]) ELSE m
    ELSE IF StartsWith(line, Str_ports) THEN
        LET r == PortsOf(line) IN
        IF IsOk(r) THEN Ok([st EXCEPT !.ports_global = Some(r.val)]) ELSE r
    ELSE IF StartsWith(line, Str_sslports) THEN
        LET r == PortsOf(line) IN
        IF IsOk(r) THEN Ok([st EXCEPT !.sslports_global = Some(r.val)]) ELSE r
    ELSE IF StartsWith(line, Str_totalwaitms) THEN
        LET r == U64Of(line) IN
        IF IsOk(r) THEN Ok([st EXCEPT !.totalwaitms_global = Some(r.val)]) ELSE r
    ELSE IF StartsWith(line, Str_tcpwrappedms) THEN
        LET r == U64Of(line) IN
        IF IsOk(r) THEN Ok([st EXCEPT !.tcpwrappedms_global = Some(r.val)]) ELSE r
    ELSE IF StartsWith(line, Str_rarity) THEN
        LET r == U64Of(line) IN
        IF IsOk(r) THEN Ok([st EXCEPT !.rarity_global = Some(r.val)]) ELSE r
    ELSE IF StartsWith(line, Str_fallback) THEN
        Ok([st EXCEPT !.fallback_gloabl = Some(SliceFrom(Split(line, " "), 1))])
    ELSE Ok(st)

RECURSIVE ParserLoop(_, _, _)
ParserLoop(lines, i, st) ==
    IF i > Len(lines) THEN Ok(PushLast(st))
    ELSE LET r == ParserStep(st, lines[i]) IN
         IF ~IsOk(r) THEN r ELSE ParserLoop(lines, i + 1, r.val)

nsp_parser(lines) == ParserLoop(lines, 1, ParserStart)

(***************************************************************************)
(* ServiceProbes::check (dbparser.rs 54-63).                               *)
(***************************************************************************)
\* The loop over self.matchs from rule i, with the vector built so far.
RECURSIVE CheckLoop(_, _, _, _)
CheckLoop(matchs, recv_str, i, matchs_vec) ==
    IF i > Len(matchs) THEN matchs_vec
    ELSE CheckLoop(matchs, recv_str, i + 1,
                   IF is_match(matchs[i].re, recv_str)
                   THEN Append(matchs_vec, matchs[i])
                   ELSE matchs_vec)

\* check that stops at the first rule that accepts the response.
check_FirstOnly(self, recv_str) ==
    LET all == CheckLoop(self.matchs, recv_str, 1, <<>>) IN
    Ok(IF all = <<>> THEN <<>> ELSE <<Head(all)>>)

check(self, recv_str) == Ok(CheckLoop(self.matchs, recv_str, 1, <<>>))

(***************************************************************************)
(* Inputs of nsp_parser: files of up to MaxLines lines drawn from a pool   *)
(* of block lines, from a pool holding malformed lines or from a pool of   *)
(* every per-block directive; responses fed                                *)
(* to ServiceProbes::check.                                                *)
(***************************************************************************)
L_ProbeNull == <<"P", "r", "o", "b", "e", " ", "T", "C", "P", " ", "N", "U", "L", "L", " ", "q", "|", "|">>
L_ProbeUdp == <<"P", "r", "o", "b", "e", " ", "U", "D", "P", " ", "X", " ", "q", "|", "a", "|", " ", "n", "o", "-", "p", "a", "y", "l", "o", "a", "d">>
L_ProbeHash == <<"P", "r", "o", "b", "e", " ", "T", "C", "P", " ", "H", " ", "q", "|", "#", "|">>
L_MatchAb == <<"m", "a", "t", "c", "h", " ", "s", "s", "h", " ", "m", "|", "a", "b", "|", " ", "p", "/", "x", "/">>
L_MatchA == <<"m", "a", "t", "c", "h", " ", "a", " ", "m", "|", "a", "|">>
L_MatchAbI == <<"m", "a", "t", "c", "h", " ", "t", "n", " ", "m", "|", "a", "b", "|", "i">>
L_MatchDotS == <<"m", "a", "t", "c", "h", " ", "d", "s", " ", "m", "|", "a", ".", "b", "|", "s">>
L_MatchEqI == <<"m", "a", "t", "c", "h", " ", "e", "q", " ", "m", "=", "a", "b", "=", "i">>
L_MatchPctS == <<"m", "a", "t", "c", "h", " ", "p", "c", " ", "m", "%", "a", ".", "b", "%", "s">>
L_MatchHash == <<"m", "a", "t", "c", "h", " ", "h", " ", "m", "|", "#", "|">>
L_SoftExclude == <<"s", "o", "f", "t", "m", "a", "t", "c", "h", " ", "e", "x", " ", "m", "|", "E", "x", "c", "l", "u", "d", "e", "|">>
L_SoftCd == <<"s", "o", "f", "t", "m", "a", "t", "c", "h", " ", "f", "t", "p", " ", "m", "|", "c", "d", "|">>
L_Ports == <<"p", "o", "r", "t", "s", " ", "1", ",", "2", "-", "3">>
L_Rarity == <<"r", "a", "r", "i", "t", "y", " ", "5">>
L_PortsBad == <<"p", "o", "r", "t", "s", " ", "x">>
L_TotalBad == <<"t", "o", "t", "a", "l", "w", "a", "i", "t", "m", "s", " ", "q">>
L_RarityBad == <<"r", "a", "r", "i", "t", "y", " ", "z">>
L_MatchBad == <<"m", "a", "t", "c", "h", " ", "b", "a", "d", " ", "m", "|", "(", "|">>
L_ProbeSctp == <<"P", "r", "o", "b", "e", " ", "S", "C", "T", "P", " ", "S", " ", "q", "|", "|">>
L_SslPorts == <<"s", "s", "l", "p", "o", "r", "t", "s", " ", "4", "4", "3">>
L_TotalWait == <<"t", "o", "t", "a", "l", "w", "a", "i", "t", "m", "s", " ", "6", "0", "0", "0">>
L_TcpWrapped == <<"t", "c", "p", "w", "r", "a", "p", "p", "e", "d", "m", "s", " ", "3", "0", "0", "0">>
L_Fallback == <<"f", "a", "l", "l", "b", "a", "c", "k", " ", "G", "e", "t", "R", "e", "q", "u", "e", "s", "t", ",", "X">>
L_ProbeShort == <<"P", "r", "o", "b", "e", " ", "T", "C", "P">>

BlockPool ==
    {L_Comment, L_ProbeNull, L_ProbeUdp, L_ProbeHash, L_MatchAb, L_MatchA,
     L_MatchAbI, L_MatchDotS, L_MatchEqI, L_MatchPctS, L_SoftCd,
     L_MatchHash, L_SoftExclude}

MalformedPool ==
    {L_ProbeNull, L_MatchAb, L_Ports, L_Rarity, L_PortsBad, L_TotalBad,
     L_RarityBad, L_MatchBad, L_ProbeSctp, L_ProbeShort}

DirectivePool ==
    {L_ProbeNull, L_ProbeUdp, L_MatchA, L_SoftCd, L_Ports, L_SslPorts,
     L_TotalWait, L_TcpWrapped, L_Rarity, L_Fallback}

FilesOver(pool) == UNION {[1..n -> pool] : n \in 0..MaxLines}

ParserInputs == FilesOver(BlockPool) \cup FilesOver(MalformedPool) \cup FilesOver(DirectivePool)

R_ab == <<"a", "b">>
R_AB == <<"A", "B">>
R_cd == <<"c", "d">>
R_a_nl_b == <<"a", "\n", "b">>
R_xy == <<"x", "y">>

Responses == {R_ab, R_AB, R_cd, R_a_nl_b, R_xy}

NInit ==
    /\ n_pc = "ready"
    /\ n_lines \in ParserInputs
    /\ n_result = NoResult
    /\ n_entry = 0
    /\ n_resp = <<>>
    /\ n_found = NoResult

NIdle ==
    /\ n_pc = "idle"
    /\ n_lines = <<>>
    /\ n_result = NoResult
    /\ n_entry = 0
    /\ n_resp = <<>>
    /\ n_found = NoResult

\* One call of nsp_parser on the file.
NParse ==
    /\ n_pc = "ready"
    /\ n_result' = nsp_parser(n_lines)
    /\ n_pc' = "parsed"
    /\ UNCHANGED << n_lines, n_entry, n_resp, n_found >>
    /\ UNCHANGED << exVars, hVars, pVars, xVars >>

\* One call of check on an entry of the parsed database.
NCheck ==
    /\ n_pc = "parsed"
    /\ IsOk(n_result)
    /\ \E e \in 1..Len(n_result.val) : \E r \in Responses :
        /\ n_entry' = e
        /\ n_resp' = r
        /\ n_found' = check(n_result.val[e], r)
    /\ n_pc' = "checked"
    /\ UNCHANGED << n_lines, n_result >>
    /\ UNCHANGED << exVars, hVars, pVars, xVars >>

(***************************************************************************)
(* Packet buffers: a buffer is a sequence of bytes; the pnet setters write *)
(* multi-byte fields in network byte order at fixed offsets (0-based).     *)
(***************************************************************************)
Zeros(n) == [i \in 1..n |-> 0]
SetU8(buf, off, v) == [buf EXCEPT ![off + 1] = v % 256]
SetU16(buf, off, v) ==
    [buf EXCEPT ![off + 1] = (v \div 256) % 256, ![off + 2] = v % 256]
GetU16(buf, off) == (buf[off + 1] * 256) + buf[off + 2]
\* Copies bytes into buf from offset off on.
SetBytes(buf, off, bytes) ==
    [i \in 1..Len(buf) |->
        IF i > off /\ i <= off + Len(bytes) THEN bytes[i - off] ELSE buf[i]]
\* The upper four bits of a byte, keeping the lower four.
SetHighNibble(buf, off, v) == SetU8(buf, off, ((v % 16) * 16) + (buf[off + 1] % 16))
\* The lower four bits of a byte, keeping the upper four.
SetLowNibble(buf, off, v) == SetU8(buf, off, ((buf[off + 1] \div 16) * 16) + (v % 16))

\* The sum of the 16-bit big-endian words of buf, leaving out the word with
\* index skip (none when skip < 0); an odd last byte counts as its high byte.
RECURSIVE SumWords(_, _, _)
SumWords(buf, w, skip) ==
    IF 2 * w >= Len(buf) THEN 0
    ELSE (IF w = skip THEN 0
          ELSE (buf[2 * w + 1] * 256) + (IF 2 * w + 2 <= Len(buf) THEN buf[2 * w + 2] ELSE 0))
         + SumWords(buf, w + 1, skip)

\* End-around carry down to 16 bits, then the one's complement.
RECURSIVE Fold16(_)
Fold16(sum) ==
    IF sum \div 65536 = 0 THEN sum ELSE Fold16((sum \div 65536) + (sum % 65536))
Finalize(sum) == 65535 - Fold16(sum)

(***************************************************************************)
(* tcp_syn_scan (scan/tcp.rs 16-81).                                       *)
(***************************************************************************)
TCP_HEADER_LEN == 20
TEST_DATA_LEN == 0
IpProtoTcp == 6
TcpFlagSYN == 2
TcpFlagRST == 4
TcpFlagACK == 16
SynWindow == 2048
SynDataOffset == 0

\* pnet's tcp::ipv4_checksum: pseudo-header (source, destination, protocol
\* TCP, segment length) plus the segment without its checksum word (8).
PseudoHeaderSum(src, dst, proto, len) ==
    SumWords(src, 0, -1) + SumWords(dst, 0, -1) + proto + len
ipv4_checksum(packet, src, dst) ==
    Finalize(PseudoHeaderSum(src, dst, IpProtoTcp, Len(packet)) + SumWords(packet, 0, 8))

\* Lines 30-55: the setters in program order, the checksum last.
syn_packet(args, sequence, acknowledgement) ==
    LET p0 == Zeros(TCP_HEADER_LEN + TEST_DATA_LEN)
        p1 == SetU16(p0, 0, args.port_src)
        p2 == SetU16(p1, 2, args.port_dst)
        p3 == SetU16(SetU16(p2, 4, sequence[1]), 6, sequence[2])
        p4 == SetU16(SetU16(p3, 8, acknowledgement[1]), 10, acknowledgement[2])
        p5 == SetU8(p4, 13, TcpFlagSYN)
        p6 == SetU16(p5, 14, SynWindow)
        p7 == SetHighNibble(p6, 12, SynDataOffset)
    IN SetU16(p7, 16, ipv4_checksum(p7, args.ipv4_src, args.ipv4_dst))

\* The function has no return type (line 16): what it returns carries
\* neither a scan status nor an RTT.
SynUnit == [status |-> "none", rtt |-> "none"]

\* Whether a flags byte has the given flag set.
HasFlag(flags, flag) == (flags \div flag) % 2 = 1

\* Line 17: the protocol the channel is opened with.
SynChannelProtocol == "Test1"

\* lib.rs 23: the bound on send attempts; no function under src/ reads it.
DEFAULT_MAXLOOP == 512

SynAddrs == {<<192, 168, 5, 133>>, <<10, 0, 0, 1>>}
SynSrcPorts == {47890, 1}
SynDstPorts == {443, 65535}
\* rng.gen::<u32>() as two 16-bit halves.
SynRandomU32 == {<<0, 0>>, <<65535, 65535>>, <<4660, 22136>>}
SynArgs ==
    [ipv4_src : SynAddrs, ipv4_dst : SynAddrs, port_src : SynSrcPorts, port_dst : SynDstPorts]
NoArgs == [ipv4_src |-> <<>>, ipv4_dst |-> <<>>, port_src |-> 0, port_dst |-> 0]
\* What the receive iterator yields: nothing at all, an error, or a segment
\* with the given flags.
SynFlagSets == {TcpFlagSYN + TcpFlagACK, TcpFlagRST, TcpFlagRST + TcpFlagACK, TcpFlagACK}
SynNet ==
    {[kind |-> "silent", flags |-> 0], [kind |-> "err", flags |-> 0]}
    \cup {[kind |-> "packet", flags |-> f] : f \in SynFlagSets}
ChannelOutcomes == {"ok", "err"}

SInit ==
    /\ s_pc = "start"
    /\ s_args \in SynArgs
    /\ s_chan \in ChannelOutcomes
    /\ s_sendout \in ChannelOutcomes
    /\ s_net \in SynNet
    /\ s_protocol = "none"
    /\ s_packet = <<>>
    /\ s_sent = 0
    /\ s_attempts = 0
    /\ s_seen = <<>>
    /\ s_result = NoResult

SIdle ==
    /\ s_pc = "idle"
    /\ s_args = NoArgs
    /\ s_chan = "ok"
    /\ s_sendout = "ok"
    /\ s_net = [kind |-> "silent", flags |-> 0]
    /\ s_protocol = "none"
    /\ s_packet = <<>>
    /\ s_sent = 0
    /\ s_attempts = 0
    /\ s_seen = <<>>
    /\ s_result = NoResult

\* Lines 17-27: open the transport channel; an error panics.
SynOpen ==
    /\ s_pc = "start"
    /\ s_protocol' = SynChannelProtocol
    /\ IF s_chan = "ok"
       THEN s_pc' = "opened" /\ UNCHANGED s_result
       ELSE /\ s_pc' = "panicked"
            /\ s_result' = Panic("An error occurred when creating the transport channel")
    /\ UNCHANGED << s_args, s_chan, s_sendout, s_net, s_packet, s_sent, s_attempts, s_seen >>
    /\ UNCHANGED notS

\* Lines 29-55: build the segment with random sequence and acknowledgement.
SynBuild ==
    /\ s_pc = "opened"
    /\ \E sequence \in SynRandomU32, acknowledgement \in SynRandomU32 :
           s_packet' = syn_packet(s_args, sequence, acknowledgement)
    /\ s_pc' = "built"
    /\ UNCHANGED << s_args, s_chan, s_sendout, s_net, s_protocol, s_sent, s_attempts, s_seen, s_result >>
    /\ UNCHANGED notS

\* Lines 58-65: one send_to; an error panics.
SynSend ==
    /\ s_pc = "built"
    /\ s_attempts' = s_attempts + 1
    /\ IF s_sendout = "ok"
       THEN s_pc' = "sent" /\ s_sent' = s_sent + 1 /\ UNCHANGED s_result
       ELSE /\ s_pc' = "panicked"
            /\ s_result' = Panic("failed to send packet")
            /\ UNCHANGED s_sent
    /\ UNCHANGED << s_args, s_chan, s_sendout, s_net, s_protocol, s_packet, s_seen >>
    /\ UNCHANGED notS

\* Lines 69-80: iter.next() blocks until the channel yields something; a
\* segment is printed and the function returns (), an error panics.
SynRecv ==
    /\ s_pc = "sent"
    /\ s_net.kind # "silent"
    /\ IF s_net.kind = "packet"
       THEN /\ s_seen' = Append(s_seen, s_net.flags)
            /\ s_pc' = "returned"
            /\ s_result' = Ok(SynUnit)
       ELSE /\ s_pc' = "panicked"
            /\ s_result' = Panic("An error occurred while reading")
            /\ UNCHANGED s_seen
    /\ UNCHANGED << s_args, s_chan, s_sendout, s_net, s_protocol, s_packet, s_sent, s_attempts >>
    /\ UNCHANGED notS

(***************************************************************************)
(* send_icmp_ping_packet on the wire: the matcher it builds (icmp.rs       *)
(* 84-94), the transport call (icmp.rs 96) and concurrent calls from one   *)
(* source to one destination.  layer3_ipv4_send and the matcher's          *)
(* evaluation live in crate::layers; they follow the transport and matcher *)
(* sections of the specification: transmit once, then poll the incoming    *)
(* packets until one satisfies the matcher or the deadline passes; a       *)
(* packet matches iff every field the matcher sets equals the packet's.    *)
(***************************************************************************)
\* Most unrelated packets the destination and other hosts put on the wire.
MaxNoise == 2

PingSrc == <<192, 168, 72, 128>>
PingDst == <<192, 168, 72, 2>>
OtherHost == <<192, 168, 72, 1>>
Probes == {"A", "B"}
\* rng.gen() for the echo identifier (icmp.rs 60).
Idents == {1, 2}
\* icmp_header.set_sequence_number(1) (icmp.rs 59).
PingSequenceNumber == 1
IcmpTimestampReply == 14

\* The matcher with types restricted to echo reply and destination
\* unreachable.
icmp_matcher_TypesPinned(src_ipv4, dst_ipv4) ==
    [layer3 |-> [layer2 |-> None, src_addr |-> Some(dst_ipv4), dst_addr |-> Some(src_ipv4)],
     types |-> Some(<<IcmpEchoReply, IcmpDestinationUnreachable>>),
     codes |-> None]

\* icmp.rs 84-93: Layer3Match and Layer4MatchIcmp as the call builds them.
icmp_matcher(src_ipv4, dst_ipv4) ==
    [layer3 |-> [layer2 |-> None, src_addr |-> Some(dst_ipv4), dst_addr |-> Some(src_ipv4)],
     types |-> None,
     codes |-> None]

\* LayersMatch::Layer4MatchIcmp on a packet: every field that is set equals
\* the packet's field.
do_match(matcher, pkt) ==
    /\ matcher.layer3.src_addr.some => pkt.src = matcher.layer3.src_addr.val
    /\ matcher.layer3.dst_addr.some => pkt.dst = matcher.layer3.dst_addr.val
    /\ matcher.types.some =>
           pkt.proto = IpProtoIcmp /\ VecContains(matcher.types.val, pkt.icmp_type)
    /\ matcher.codes.some =>
           pkt.proto = IpProtoIcmp /\ VecContains(matcher.codes.val, pkt.icmp_code)

\* The echo reply the destination sends to a request with the given
\* identifier and sequence number.
EchoReplyTo(ident, seq) ==
    [src |-> PingDst, dst |-> PingSrc, len |-> 44, proto |-> IpProtoIcmp,
     icmp_type |-> IcmpEchoReply, icmp_code |-> 0, ident |-> ident, seq |-> seq]

\* Other traffic: an ICMP timestamp reply and a port-unreachable from the
\* destination, and an echo reply from another host.
NoisePackets ==
    {[src |-> PingDst, dst |-> PingSrc, len |-> 40, proto |-> IpProtoIcmp,
      icmp_type |-> IcmpTimestampReply, icmp_code |-> 0, ident |-> 0, seq |-> 0],
     [src |-> PingDst, dst |-> PingSrc, len |-> 56, proto |-> IpProtoIcmp,
      icmp_type |-> IcmpDestinationUnreachable, icmp_code |-> 3, ident |-> 0, seq |-> 0],
     [src |-> OtherHost, dst |-> PingSrc, len |-> 44, proto |-> IpProtoIcmp,
      icmp_type |-> IcmpEchoReply, icmp_code |-> 0, ident |-> 1, seq |-> 1]}

NoRet == [some |-> FALSE, pkt |-> NoPacket]

TInit ==
    /\ t_pc = [p \in Probes |-> "pending"]
    /\ t_ident = [p \in Probes |-> 0]
    /\ t_wire = <<>>
    /\ t_start = [p \in Probes |-> 1]
    /\ t_next = [p \in Probes |-> 1]
    /\ t_ret = [p \in Probes |-> NoRet]
    /\ t_result = [p \in Probes |-> NoResult]
    /\ t_sends = [p \in Probes |-> 0]
    /\ t_answered = [p \in Probes |-> FALSE]
    /\ t_noise = 0

TIdle ==
    /\ t_pc = [p \in Probes |-> "idle"]
    /\ t_ident = [p \in Probes |-> 0]
    /\ t_wire = <<>>
    /\ t_start = [p \in Probes |-> 1]
    /\ t_next = [p \in Probes |-> 1]
    /\ t_ret = [p \in Probes |-> NoRet]
    /\ t_result = [p \in Probes |-> NoResult]
    /\ t_sends = [p \in Probes |-> 0]
    /\ t_answered = [p \in Probes |-> FALSE]
    /\ t_noise = 0

\* icmp.rs 39-96: build the request with a random identifier and hand it
\* to the transport, which transmits it once and starts polling what comes
\* in from then on.
TSend(p) ==
    /\ t_pc[p] = "pending"
    /\ \E ident \in Idents : t_ident' = [t_ident EXCEPT ![p] = ident]
    /\ t_sends' = [t_sends EXCEPT ![p] = @ + 1]
    /\ t_start' = [t_start EXCEPT ![p] = Len(t_wire) + 1]
    /\ t_next' = [t_next EXCEPT ![p] = Len(t_wire) + 1]
    /\ t_pc' = [t_pc EXCEPT ![p] = "sent"]
    /\ UNCHANGED << t_wire, t_ret, t_result, t_answered, t_noise >>
    /\ UNCHANGED notT

\* The transport looks at the next incoming packet: the first one the
\* matcher accepts is the response, and the call returns its verdict
\* (icmp.rs 96-134).
TPoll(p) ==
    /\ t_pc[p] = "sent"
    /\ t_next[p] <= Len(t_wire)
    /\ LET pkt == t_wire[t_next[p]] IN
       IF do_match(icmp_matcher(PingSrc, PingDst), pkt)
       THEN /\ t_ret' = [t_ret EXCEPT ![p] = [some |-> TRUE, pkt |-> pkt]]
            /\ t_result' = [t_result EXCEPT ![p] =
                   send_icmp_ping_packet(
                       [kind |-> "Ok", ret |-> [some |-> TRUE, pkt |-> pkt], rtt |-> "rtt"])]
            /\ t_pc' = [t_pc EXCEPT ![p] = "done"]
            /\ UNCHANGED t_next
       ELSE /\ t_next' = [t_next EXCEPT ![p] = @ + 1]
            /\ UNCHANGED << t_ret, t_result, t_pc >>
    /\ UNCHANGED << t_ident, t_wire, t_start, t_sends, t_answered, t_noise >>
    /\ UNCHANGED notT

\* The deadline passes with nothing left to look at: no response.
TTimeout(p) ==
    /\ t_pc[p] = "sent"
    /\ t_next[p] > Len(t_wire)
    /\ t_result' = [t_result EXCEPT ![p] =
           send_icmp_ping_packet([kind |-> "Ok", ret |-> NoRet, rtt |-> "none"])]
    /\ t_pc' = [t_pc EXCEPT ![p] = "done"]
    /\ UNCHANGED << t_ident, t_wire, t_start, t_next, t_ret, t_sends, t_answered, t_noise >>
    /\ UNCHANGED notT

\* The destination answers a request it received, once.
TargetReply(p) ==
    /\ t_pc[p] \in {"sent", "done"}
    /\ ~t_answered[p]
    /\ t_wire' = Append(t_wire, EchoReplyTo(t_ident[p], PingSequenceNumber))
    /\ t_answered' = [t_answered EXCEPT ![p] = TRUE]
    /\ UNCHANGED << t_pc, t_ident, t_start, t_next, t_ret, t_result, t_sends, t_noise >>
    /\ UNCHANGED notT

\* Unrelated traffic reaches the source.
OtherTraffic ==
    /\ t_noise < MaxNoise
    /\ \E k \in NoisePackets : t_wire' = Append(t_wire, k)
    /\ t_noise' = t_noise + 1
    /\ UNCHANGED << t_pc, t_ident, t_start, t_next, t_ret, t_result, t_sends, t_answered >>
    /\ UNCHANGED notT

(***************************************************************************)
(* The echo request send_icmp_ping_packet builds (icmp.rs 38-73): an IPv4  *)
(* header followed by the ICMP echo request, in one buffer.                *)
(***************************************************************************)
\* crate::layers: the sizes of a bare IPv4 header and of an ICMP echo header.
IPV4_HEADER_SIZE == 20
ICMP_HEADER_SIZE == 8
ICMP_DATA_SIZE == 16
TTL == 64
Ipv4FlagDontFragment == 2
IcmpEchoRequest == 8

Reverse(bytes) == [i \in 1..Len(bytes) |-> bytes[Len(bytes) + 1 - i]]

\* pnet's ipv4::checksum: over the header_length * 4 bytes of the header
\* (at least 20, at most the buffer), leaving out the checksum word (5).
ipv4_checksum_header(buf) ==
    LET declared == (buf[1] % 16) * 4
        header_length == IF declared > Len(buf) THEN Len(buf)
                         ELSE IF declared < 20 THEN 20 ELSE declared
    IN Finalize(SumWords(SubSeq(buf, 1, header_length), 0, 5))

\* The header with the checksum taken before the TTL and the protocol are
\* written.
ping_ipv4_header_ChecksumEarly(buf, src_ipv4, dst_ipv4, id) ==
    LET b1 == SetHighNibble(buf, 0, 4)
        b2 == SetLowNibble(b1, 0, 5)
        b3 == SetBytes(b2, 12, src_ipv4)
        b4 == SetBytes(b3, 16, dst_ipv4)
        b5 == SetU16(b4, 2, IPV4_HEADER_SIZE + ICMP_HEADER_SIZE + ICMP_DATA_SIZE)
        b6 == SetU16(b5, 4, id)
        b7 == SetU8(b6, 6, (Ipv4FlagDontFragment * 32) + (b6[7] % 32))
        b8 == SetU16(b7, 10, ipv4_checksum_header(b7))
        b9 == SetU8(b8, 8, TTL)
    IN SetU8(b9, 9, IpProtoIcmp)

\* icmp.rs 42-54: the IPv4 setters in program order, the checksum last.
ping_ipv4_header(buf, src_ipv4, dst_ipv4, id) ==
    LET b1 == SetHighNibble(buf, 0, 4)
        b2 == SetLowNibble(b1, 0, 5)
        b3 == SetBytes(b2, 12, src_ipv4)
        b4 == SetBytes(b3, 16, dst_ipv4)
        b5 == SetU16(b4, 2, IPV4_HEADER_SIZE + ICMP_HEADER_SIZE + ICMP_DATA_SIZE)
        b6 == SetU16(b5, 4, id)
        b7 == SetU8(b6, 6, (Ipv4FlagDontFragment * 32) + (b6[7] % 32))
        b8 == SetU8(b7, 8, TTL)
        b9 == SetU8(b8, 9, IpProtoIcmp)
    IN SetU16(b9, 10, ipv4_checksum_header(b9))

\* pnet's icmp::checksum: over the whole ICMP message, leaving out the
\* checksum word (1).
icmp_checksum(icmp) == Finalize(SumWords(icmp, 0, 1))

\* icmp.rs 56-73 on ip_buff[IPV4_HEADER_SIZE..]: type, code, sequence
\* number, identifier, the payload (the seconds and the milliseconds, each
\* to_be_bytes() and then reversed), the checksum last.  tv_sec and tv_usec
\* are given as their to_be_bytes().
ping_icmp_header(buf, identifier, tv_sec, tv_usec) ==
    LET o == IPV4_HEADER_SIZE
        b1 == SetU8(buf, o, IcmpEchoRequest)
        b2 == SetU8(b1, o + 1, 0)
        b3 == SetU16(b2, o + 6, PingSequenceNumber)
        b4 == SetU16(b3, o + 4, identifier)
        timestamp == Reverse(tv_sec) \o Reverse(tv_usec)
        b5 == SetBytes(b4, o + ICMP_HEADER_SIZE, timestamp)
    IN SetU16(b5, o + 2, icmp_checksum(SubSeq(b5, o + 1, Len(b5))))

\* The buffer handed to the transport; rng holds the two values drawn from
\* the random generator, in the order drawn (lines 48 and 60).
ping_buffer(in) ==
    LET ip_buff == Zeros(IPV4_HEADER_SIZE + ICMP_HEADER_SIZE + ICMP_DATA_SIZE)
        with_ip == ping_ipv4_header(ip_buff, in.src_ipv4, in.dst_ipv4, in.rng[1])
    IN ping_icmp_header(with_ip, in.rng[2], in.tv_sec, in.tv_usec)

\* Inputs: addresses, the generator's draws (none of them the constant 1),
\* and the clock as big-endian bytes of the i64 seconds and u32 milliseconds.
BuildAddrs == {<<192, 168, 72, 128>>, <<255, 255, 255, 255>>}
RngDraws == {0, 4660, 65535}
ClockSecs == {<<0, 0, 0, 0, 101, 67, 33, 16>>, <<0, 0, 0, 0, 0, 0, 0, 0>>, <<0, 0, 0, 1, 255, 255, 255, 255>>}
ClockMillis == {<<0, 0, 0, 0>>, <<0, 0, 3, 231>>}
BuildInputs ==
    [src_ipv4 : BuildAddrs, dst_ipv4 : BuildAddrs, rng : [1..2 -> RngDraws],
     tv_sec : ClockSecs, tv_usec : ClockMillis]
NoBuildInput ==
    [src_ipv4 |-> <<>>, dst_ipv4 |-> <<>>, rng |-> <<>>, tv_sec |-> <<>>, tv_usec |-> <<>>]

BInit ==
    /\ b_pc = "ready"
    /\ b_in \in BuildInputs
    /\ b_buff = <<>>

BIdle ==
    /\ b_pc = "idle"
    /\ b_in = NoBuildInput
    /\ b_buff = <<>>

\* Lines 38-73 of one call.
BBuild ==
    /\ b_pc = "ready"
    /\ b_buff' = ping_buffer(b_in)
    /\ b_pc' = "built"
    /\ UNCHANGED b_in
    /\ UNCHANGED notB

(***************************************************************************)
(* Port lists: the same list given to the `ports` directive, to the        *)
(* `sslports` directive (dbparser.rs 211-220) and, unprefixed, to the      *)
(* Exclude directive (dbparser.rs 273-312).                                *)
(***************************************************************************)
I_80 == <<"8", "0">>
I_sp7 == <<" ", "7">>
I_1_3 == <<"1", "-", "3">>
I_3_1 == <<"3", "-", "1">>
I_Top == <<"6", "5", "5", "3", "4", "-", "6", "5", "5", "3", "5">>
I_1_2_3 == <<"1", "-", "2", "-", "3">>
I_65536 == <<"6", "5", "5", "3", "6">>
I_x == <<"x">>
I_7_ == <<"7", "-">>
PortItemPool == {I_80, I_sp7, I_1_3, I_3_1, I_Top, I_1_2_3, I_65536, I_x, I_7_}
PortItemLists == UNION {[1..n -> PortItemPool] : n \in 1..MaxPortItems}

PortsLine(items) == Str_ports \o <<" ">> \o Join(items, ",")
SslPortsLine(items) == Str_sslports \o <<" ">> \o Join(items, ",")

QInit ==
    /\ q_pc = "ready"
    /\ q_items \in PortItemLists
    /\ q_ports = NoResult
    /\ q_sslports = NoResult
    /\ q_exclude = NoResult

QIdle ==
    /\ q_pc = "idle"
    /\ q_items = <<>>
    /\ q_ports = NoResult
    /\ q_sslports = NoResult
    /\ q_exclude = NoResult

\* Lines 211-215: a `ports` line.
QPorts ==
    /\ q_pc = "ready"
    /\ q_ports = NoResult
    /\ q_ports' = PortsOf(PortsLine(q_items))
    /\ UNCHANGED << q_pc, q_items, q_sslports, q_exclude >>
    /\ UNCHANGED notQ

\* Lines 216-220: an `sslports` line.
QSslPorts ==
    /\ q_pc = "ready"
    /\ q_sslports = NoResult
    /\ q_sslports' = PortsOf(SslPortsLine(q_items))
    /\ UNCHANGED << q_pc, q_items, q_ports, q_exclude >>
    /\ UNCHANGED notQ

\* nsp_exclued_parser on a file whose Exclude line lists the same items.
QExclude ==
    /\ q_pc = "ready"
    /\ q_exclude = NoResult
    /\ q_exclude' = nsp_exclued_parser(<<ExcludeLine(q_items)>>)
    /\ UNCHANGED << q_pc, q_items, q_ports, q_sslports >>
    /\ UNCHANGED notQ

(***************************************************************************)
(* Target::new, Target::new6, Target::from_subnet (lib.rs 332-369).        *)
(***************************************************************************)
\* lib.rs 332-338.
Target_new(hosts) ==
    [target_type |-> "Ipv4", hosts |-> hosts, hosts6 |-> <<>>]

\* lib.rs 340-346.
Target_new6(hosts6) ==
    [target_type |-> "Ipv6", hosts |-> <<>>, hosts6 |-> hosts6]

\* The loop of lines 359-362 with an address that fails Host::new left
\* out instead of returned.
RECURSIVE SubnetHosts_SkipInvalid(_, _, _, _, _)
SubnetHosts_SkipInvalid(pool, i, ports, source, hosts) ==
    IF i > Len(pool) THEN Ok(hosts)
    ELSE LET h == Host_new("v4", pool[i], ports, source[pool[i]]) IN
         SubnetHosts_SkipInvalid(pool, i + 1, ports, source,
                                 IF IsOk(h) THEN Append(hosts, h.val) ELSE hosts)

\* The loop of lines 359-362: Host::new(addr, ports.clone())? for each
\* address of the pool in turn, pushed onto hosts.
RECURSIVE SubnetHosts(_, _, _, _, _)
SubnetHosts(pool, i, ports, source, hosts) ==
    IF i > Len(pool) THEN Ok(hosts)
    ELSE LET h == Host_new("v4", pool[i], ports, source[pool[i]]) IN
         IF ~IsOk(h) THEN h
         ELSE SubnetHosts(pool, i + 1, ports, source, Append(hosts, h.val))

\* lib.rs 356-369; ipv4_pool is what Ipv4Pool::from(subnet) returned: an
\* error, or the addresses in the order the pool yields them.
Target_from_subnet(ipv4_pool, ports, source) ==
    IF ~IsOk(ipv4_pool) THEN ipv4_pool
    ELSE LET hosts == SubnetHosts(ipv4_pool.val, 1, ports, source, <<>>) IN
         IF ~IsOk(hosts) THEN hosts
         ELSE Ok([target_type |-> "Ipv4", hosts |-> hosts.val, hosts6 |-> <<>>])

\* Inputs: addresses of a private subnet and a global one, what the source
\* lookup answers for each, host vectors of either family.
SubnetAddrs == {<<192, 168, 1, 0>>, <<192, 168, 1, 1>>, <<114, 114, 114, 114>>}
SeqsUpTo(S, n) == UNION {[1..k -> S] : k \in 0..n}
PoolOutcomes ==
    {Err("InvalidInputError")} \cup {Ok(as) : as \in SeqsUpTo(SubnetAddrs, MaxSubnetHosts)}
SourceMaps == [SubnetAddrs -> SourceOutcomes]
NoSource == [a \in SubnetAddrs |-> "none"]
HostValues ==
    {[family |-> "v4", addr |-> a, ports |-> ps] :
        a \in {<<192, 168, 72, 135>>, <<192, 168, 1, 2>>}, ps \in {<<>>, <<22, 23>>}}
Host6Values ==
    {[family |-> "v6", addr |-> a, ports |-> ps] :
        a \in {<<254, 128>> \o r : r \in V6Rest}, ps \in {<<>>, <<80>>}}
NoPool == Ok(<<>>)

GInit ==
    /\ g_pc = "ready"
    /\ g_op \in {"new", "new6", "from_subnet"}
    /\ g_hosts \in (IF g_op = "new" THEN SeqsUpTo(HostValues, MaxSubnetHosts)
                    ELSE IF g_op = "new6" THEN SeqsUpTo(Host6Values, MaxSubnetHosts)
                    ELSE {<<>>})
    /\ g_pool \in (IF g_op = "from_subnet" THEN PoolOutcomes ELSE {NoPool})
    /\ g_ports \in (IF g_op = "from_subnet" THEN PortsInputs ELSE {None})
    /\ g_source \in (IF g_op = "from_subnet" THEN SourceMaps ELSE {NoSource})
    /\ g_result = NoResult

GIdle ==
    /\ g_pc = "idle"
    /\ g_op = "none"
    /\ g_hosts = <<>>
    /\ g_pool = NoPool
    /\ g_ports = None
    /\ g_source = NoSource
    /\ g_result = NoResult

\* Target::new(hosts).
GNew ==
    /\ g_pc = "ready"
    /\ g_op = "new"
    /\ g_result' = Ok(Target_new(g_hosts))
    /\ g_pc' = "done"
    /\ UNCHANGED << g_op, g_hosts, g_pool, g_ports, g_source >>
    /\ UNCHANGED notG

\* Target::new6(hosts6).
GNew6 ==
    /\ g_pc = "ready"
    /\ g_op = "new6"
    /\ g_result' = Ok(Target_new6(g_hosts))
    /\ g_pc' = "done"
    /\ UNCHANGED << g_op, g_hosts, g_pool, g_ports, g_source >>
    /\ UNCHANGED notG

\* Target::from_subnet(subnet, ports).
GFromSubnet ==
    /\ g_pc = "ready"
    /\ g_op = "from_subnet"
    /\ g_result' = Target_from_subnet(g_pool, g_ports, g_source)
    /\ g_pc' = "done"
    /\ UNCHANGED << g_op, g_hosts, g_pool, g_ports, g_source >>
    /\ UNCHANGED notG

\* Every later component idle.
XIdle == SIdle /\ TIdle /\ BIdle /\ QIdle /\ GIdle

(***************************************************************************)
(* Specifications: one per component, the others idle.                     *)
(***************************************************************************)
ExNext == ExParse
InitExclude == ExInit /\ HIdle /\ PIdle /\ NIdle /\ XIdle
SpecExclude == InitExclude /\ [][ExNext]_vars

HNext == HIsGlobal \/ HNew
InitHost == ExIdle /\ HInit /\ PIdle /\ NIdle /\ XIdle
SpecHost == InitHost /\ [][HNext]_vars

PNext == PPing
InitPing == ExIdle /\ HIdle /\ PInit /\ NIdle /\ XIdle
SpecPing == InitPing /\ [][PNext]_vars

NNext == NParse \/ NCheck
InitNsp == ExIdle /\ HIdle /\ PIdle /\ NInit /\ XIdle
SpecNsp == InitNsp /\ [][NNext]_vars

SNext == SynOpen \/ SynBuild \/ SynSend \/ SynRecv
InitSyn == ExIdle /\ HIdle /\ PIdle /\ NIdle /\ SInit /\ TIdle /\ BIdle /\ QIdle /\ GIdle
SpecSyn == InitSyn /\ [][SNext]_vars

TNext == (\E p \in Probes : TSend(p) \/ TPoll(p) \/ TTimeout(p) \/ TargetReply(p)) \/ OtherTraffic
InitWire == ExIdle /\ HIdle /\ PIdle /\ NIdle /\ SIdle /\ TInit /\ BIdle /\ QIdle /\ GIdle
SpecWire == InitWire /\ [][TNext]_vars

BNext == BBuild
InitBuild == ExIdle /\ HIdle /\ PIdle /\ NIdle /\ SIdle /\ TIdle /\ BInit /\ QIdle /\ GIdle
SpecBuild == InitBuild /\ [][BNext]_vars

QNext == QPorts \/ QSslPorts \/ QExclude
InitPorts == ExIdle /\ HIdle /\ PIdle /\ NIdle /\ SIdle /\ TIdle /\ BIdle /\ QInit /\ GIdle
SpecPorts == InitPorts /\ [][QNext]_vars

GNext == GNew \/ GNew6 \/ GFromSubnet
InitTarget == ExIdle /\ HIdle /\ PIdle /\ NIdle /\ SIdle /\ TIdle /\ BIdle /\ QIdle /\ GInit
SpecTarget == InitTarget /\ [][GNext]_vars

(***************************************************************************)
(* Exclude parsing.                                                        *)
(***************************************************************************)
\* The ports an entry body stands for: n, or a..b inclusive.
C1_Expand(body) ==
    IF Contains(body, <<"-">>)
    THEN RangeInclusive(ParseU16(Split(body, "-")[1]).val, ParseU16(Split(body, "-")[2]).val)
    ELSE <<ParseU16(body).val>>

C1_Prefix(entry) ==
    IF StartsWith(entry, <<"T", ":">>) THEN "T"
    ELSE IF StartsWith(entry, <<"U", ":">>) THEN "U"
    ELSE "all"

C1_Body(entry) ==
    IF C1_Prefix(entry) = "all" THEN Trim(entry) ELSE SubSeq(entry, 3, Len(entry))

\* The ports of the entries with the given prefix, in list order.
RECURSIVE C1_PortsOf(_, _)
C1_PortsOf(entries, prefix) ==
    IF entries = <<>> THEN <<>>
    ELSE (IF C1_Prefix(Head(entries)) = prefix THEN C1_Expand(C1_Body(Head(entries))) ELSE <<>>)
         \o C1_PortsOf(Tail(entries), prefix)

\* Entries C1 speaks of: T: and U: entries (number or range) and
\* unprefixed numbers.
C1_Entries == {E_T9100, E_U161_162, E_53, E_sp53, E_T1_3, E_U7}

\* C1: nsp_exclued_parser classifies every entry of the Exclude line by its
\* prefix wherever it stands: T: entries go to tcp_ports only, U: entries to
\* udp_ports only, unprefixed entries to ports only, and a range a-b gives
\* a..b from that same entry; `Exclude T:9100,U:161-162,53` gives Ok with
\* tcp_ports=[9100], udp_ports=[161,162], ports=[53].
C1_ExcludeByPrefix ==
    \A es \in ExcludeLists :
        (/\ ex_pc = "done"
         /\ ex_lines = <<ExcludeLine(es)>>
         /\ \A i \in 1..Len(es) : es[i] \in C1_Entries)
        => /\ IsOk(ex_result)
           /\ ex_result.val.tcp_ports = C1_PortsOf(es, "T")
           /\ ex_result.val.udp_ports = C1_PortsOf(es, "U")
           /\ ex_result.val.ports = C1_PortsOf(es, "all")

(***************************************************************************)
(* Target validation.                                                      *)
(***************************************************************************)
\* C2: Host::new / Host6::new returns Ok exactly when the address is global
\* or the source lookup returns some interface; a non-global address with no
\* interface gives IllegalTarget and no Host; for a global address the
\* lookup is never consulted.
C2_HostNewIffGlobalOrSource ==
    h_pc = "done" =>
        /\ IsOk(h_result) <=> (is_global_x(h_family, h_addr) \/ h_source = "some")
        /\ (~is_global_x(h_family, h_addr) /\ h_source = "none")
               => (h_result.kind = "Err" /\ h_result.err = "IllegalTarget"
                   /\ h_result.val = <<>>)
        /\ IsOk(h_result) => h_result.val.addr = h_addr
        /\ is_global_x(h_family, h_addr) => h_lookups = 0

\* A non-global address without a source interface was refused.
C2_Witness ==
    /\ h_pc = "done"
    /\ ~is_global_x(h_family, h_addr)
    /\ h_source = "none"
    /\ h_result.err = "IllegalTarget"
    /\ h_lookups = 1

\* The leading `bits` bits of an address given by its octets equal `prefix`
\* (bits is 8..16).
C3_LeadingBits(octets, bits) == octets[1] * (2 ^ (bits - 8)) + octets[2] \div (2 ^ (16 - bits))

C3_InRanges(family, octets) ==
    IF family = "v4"
    THEN \/ C3_LeadingBits(octets, 8) = 10
         \/ C3_LeadingBits(octets, 12) = 172 * 16 + 1
         \/ C3_LeadingBits(octets, 16) = 192 * 256 + 168
    ELSE C3_LeadingBits(octets, 10) = 1018

C3_NotGlobalExamples ==
    {<<192, 168, 1, 23>>,
     <<254, 128, 0, 0, 0, 0, 0, 0, 2, 12, 41, 255, 254, 67, 156, 140>>}

C3_GlobalExamples ==
    {<<114, 114, 114, 114>>,
     <<172, 32, 0, 1>>,
     <<32, 1, 13, 168, 128, 0, 0, 1, 0, 0, 0, 0, 0, 0, 0, 128>>,
     <<254, 192, 0, 0, 0, 0, 0, 0, 0, 0, 0, 0, 0, 0, 0, 1>>}

\* C3: is_global_x is false for an IPv4 address exactly in 10.0.0.0/8,
\* 172.16.0.0/12 and 192.168.0.0/16, false for an IPv6 address exactly when
\* its first 10 bits are 1111111010, and true for every other address.
C3_GlobalRanges ==
    h_pc = "classified" =>
        /\ h_global = ~C3_InRanges(h_family, h_addr)
        /\ h_addr \in C3_NotGlobalExamples => h_global = FALSE
        /\ h_addr \in C3_GlobalExamples => h_global = TRUE

\* 172.31.x.x, the last /16 of 172.16.0.0/12, was classified not global.
C3_Witness ==
    /\ h_pc = "classified"
    /\ h_family = "v4"
    /\ h_addr[1] = 172
    /\ h_addr[2] = 31
    /\ h_global = FALSE

(***************************************************************************)
(* ICMP ping.                                                              *)
(***************************************************************************)
\* The response is an IPv4 packet carrying an ICMP message of this type.
C4_IsIcmp(send, type) ==
    /\ send.ret.some
    /\ send.ret.pkt.len >= 24
    /\ send.ret.pkt.proto = 1
    /\ send.ret.pkt.icmp_type = type

\* C4: send_icmp_ping_packet returns Up for an ICMP echo reply (type 0,
\* code 0), Down for a destination-unreachable with code in
\* {1,2,3,9,10,13}, and Down when the transport returns no response.
C4_PingVerdicts ==
    (p_pc = "done" /\ p_send.kind = "Ok") =>
        /\ IsOk(p_result)
        /\ (C4_IsIcmp(p_send, 0) /\ p_send.ret.pkt.icmp_code = 0)
               => p_result.val.status = "Up"
        /\ (C4_IsIcmp(p_send, 3) /\ p_send.ret.pkt.icmp_code \in {1, 2, 3, 9, 10, 13})
               => p_result.val.status = "Down"
        /\ ~p_send.ret.some => p_result.val.status = "Down"

\* An echo reply was answered with Up.
C4_Witness ==
    /\ p_pc = "done"
    /\ p_send.kind = "Ok"
    /\ C4_IsIcmp(p_send, 0)
    /\ p_send.ret.pkt.icmp_code = 0
    /\ p_result.val.status = "Up"

(***************************************************************************)
(* Service rule evaluation and the parsed database.                        *)
(***************************************************************************)
\* The entry handed to check, and the indices of its rules that accept the
\* response.
C5_Entry == n_result.val[n_entry]
C5_Accepting(rules) == {i \in 1..Len(rules) : is_match(rules[i].re, n_resp)}
C5_First(rules) == CHOOSE i \in C5_Accepting(rules) : \A j \in C5_Accepting(rules) : i <= j

C6_SoftmatchFallThrough ==
    (/\ n_pc = "checked"
     /\ C5_Accepting(C5_Entry.matchs) = {}
     /\ C5_Accepting(C5_Entry.softmatchs) # {})
    => /\ IsOk(n_found)
       /\ n_found.val # <<>>
       /\ \E i \in C5_Accepting(C5_Entry.softmatchs) :
              n_found.val[1].service = C5_Entry.softmatchs[i].service

\* The lines of the input that start with `Probe`, in file order.
RECURSIVE C7_ProbeLines(_)
C7_ProbeLines(lines) ==
    IF lines = <<>> THEN <<>>
    ELSE (IF StartsWith(Head(lines), <<"P", "r", "o", "b", "e">>) THEN <<Head(lines)>> ELSE <<>>)
         \o C7_ProbeLines(Tail(lines))

\* The third space-separated field of a line (<<>> when it has none).
C7_Name(line) ==
    IF Len(Split(line, " ")) >= 3 THEN Split(line, " ")[3] ELSE <<>>

\* C7: whenever nsp_parser returns Ok, the result holds exactly one entry
\* per Probe line of the input, in file order, the last block and blocks
\* without match lines included; no Probe line gives an empty result.
C7_OneEntryPerProbeLine ==
    (n_pc \in {"parsed", "checked"} /\ IsOk(n_result)) =>
        LET pl == C7_ProbeLines(n_lines) IN
        /\ Len(n_result.val) = Len(pl)
        /\ \A i \in 1..Len(pl) :
               i <= Len(n_result.val) => n_result.val[i].probe.probename = C7_Name(pl[i])

\* The regex spec of a match or softmatch line: what follows the service.
C8_RegexSpec(line) == Join(SliceFrom(Split(line, " "), 2), " ")

\* Its pieces between the delimiter, the character after the leading m.
C8_Pieces(line) == Split(C8_RegexSpec(line), C8_RegexSpec(line)[2])

\* The flag letters that follow the closing delimiter.
C8_Flags(line) ==
    IF Len(C8_Pieces(line)) >= 3 THEN Split(C8_Pieces(line)[3], " ")[1] ELSE <<>>

C8_RuleLines == {L_MatchAb, L_MatchA, L_MatchAbI, L_MatchDotS, L_MatchEqI, L_MatchPctS, L_SoftCd}

\* C8: for a match or softmatch line written with m|..|, m=..= or m%..%, a
\* trailing i makes the compiled rule case-insensitive and a trailing s
\* makes "." match newlines, the pattern text between the delimiters is
\* otherwise unchanged, and a rule without a flag gets neither option.
C8_FlagsBecomeOptions ==
    (n_pc \in {"parsed", "checked"} /\ IsOk(n_result)) =>
        \A e \in 1..Len(n_result.val) :
            LET rules == n_result.val[e].matchs \o n_result.val[e].softmatchs IN
            \A r \in 1..Len(rules) : \A l \in 1..Len(n_lines) :
                (n_lines[l] \in C8_RuleLines /\ Split(n_lines[l], " ")[2] = rules[r].service)
                => /\ rules[r].re.src = C8_Pieces(n_lines[l])[2]
                   /\ rules[r].re.icase = Contains(C8_Flags(n_lines[l]), <<"i">>)
                   /\ rules[r].re.dotall = Contains(C8_Flags(n_lines[l]), <<"s">>)

\* Probe lines of the pools that are well formed.
C9_GoodProbes == {L_ProbeNull, L_ProbeUdp}

\* C9: a malformed line (a non-numeric port, totalwaitms or rarity value, a
\* pattern the regex engine rejects, a Probe line with an unknown protocol
\* or too few fields) is skipped: nsp_parser still returns Ok with every
\* well-formed Probe block, and never returns Err or panics.
C9_MalformedLineSkipped ==
    n_pc \in {"parsed", "checked"} =>
        /\ IsOk(n_result)
        /\ \A l \in 1..Len(n_lines) :
               n_lines[l] \in C9_GoodProbes
               => \E e \in 1..Len(n_result.val) :
                      n_result.val[e].probe.probename = C7_Name(n_lines[l])

(***************************************************************************)
(* The SYN scan.                                                           *)
(***************************************************************************)
\* C11: tcp_syn_scan always terminates: once the SYN probe is sent and no
\* response ever arrives, the call is not left waiting (it can still take a
\* step, the timeout), and a call that returned after silence returned the
\* verdict Filtered with no RTT.
C11_SilenceReturnsFiltered ==
    /\ (s_pc = "sent" /\ s_net.kind = "silent") => ENABLED SNext
    /\ (s_pc = "returned" /\ s_net.kind = "silent")
           => s_result = Ok([status |-> "Filtered", rtt |-> "none"])

\* C12: SYN-scan monotonicity: whenever tcp_syn_scan reports a port Open, a
\* segment with both SYN and ACK set is among the responses it observed;
\* a response carrying RST is reported Closed and never Open.
C12_SynMonotonicity ==
    s_pc = "returned" =>
        /\ IsOk(s_result)
        /\ s_result.val.status = "Open"
               => \E i \in 1..Len(s_seen) :
                      HasFlag(s_seen[i], TcpFlagSYN) /\ HasFlag(s_seen[i], TcpFlagACK)
        /\ (\E i \in 1..Len(s_seen) : HasFlag(s_seen[i], TcpFlagRST))
               => s_result.val.status = "Closed"

\* C15: a failing probe never aborts the caller: when tcp_syn_scan cannot
\* open its raw channel, cannot send, or gets a receive error, the failure
\* is reported as an error value (InsufficientPrivilege at socket open) and
\* nothing panics.
C15_FailureIsReported ==
    /\ s_result.kind # "Panic"
    /\ s_pc # "panicked"
    /\ (s_pc # "start" /\ s_chan = "err") => s_result = Err("InsufficientPrivilege")

(***************************************************************************)
(* Ping on the wire.                                                       *)
(***************************************************************************)
\* C13: the matcher of send_icmp_ping_packet is satisfied by one response
\* flow only: with two pings running concurrently from the same source to
\* the same destination, the echo reply to one probe (a different echo
\* identifier) is never accepted as the response of the other probe.
C13_NoCrossTalk ==
    \A p \in Probes : \A q \in Probes \ {p} :
        (/\ t_ret[p].some
         /\ t_pc[q] # "pending"
         /\ t_ident[p] # t_ident[q])
        => t_ret[p].pkt # EchoReplyTo(t_ident[q], PingSequenceNumber)

\* A packet the destination sent to the source.
C16_FromTarget(pkt) == pkt.src = PingDst /\ pkt.dst = PingSrc

\* C16: within one send_icmp_ping_packet call the first response that
\* satisfies the matcher decides the verdict and later responses are
\* ignored: the call returns on the first packet from the target that
\* arrives after the request, whatever its ICMP type (Up only for an echo
\* reply with code 0), and does not wait for a later echo reply; without
\* any packet from the target it reports Down with no response.
C16_FirstResponseDecides ==
    \A p \in Probes :
        t_pc[p] = "done" =>
            /\ IsOk(t_result[p])
            /\ \A i \in t_start[p]..(t_next[p] - 1) :
                   i <= Len(t_wire) => ~C16_FromTarget(t_wire[i])
            /\ IF t_ret[p].some
               THEN /\ t_ret[p].pkt = t_wire[t_next[p]]
                    /\ C16_FromTarget(t_ret[p].pkt)
                    /\ t_result[p].val.status = "Up"
                           <=> (t_ret[p].pkt.icmp_type = 0 /\ t_ret[p].pkt.icmp_code = 0)
               ELSE t_result[p].val.status = "Down"

\* A call returned Down on a timestamp reply although its own echo reply
\* arrived later.
C16_Witness ==
    \E p \in Probes :
        /\ t_pc[p] = "done"
        /\ t_ret[p].some
        /\ t_ret[p].pkt.icmp_type = IcmpTimestampReply
        /\ t_result[p].val.status = "Down"
        /\ \E i \in (t_next[p] + 1)..Len(t_wire) :
               t_wire[i] = EchoReplyTo(t_ident[p], PingSequenceNumber)

(***************************************************************************)
(* The echo request.                                                       *)
(***************************************************************************)
\* C14: every IPv4 header built by send_icmp_ping_packet has version 4,
\* IHL 5, the Don't-Fragment flag set, TTL 64, total length equal to the
\* buffer length and protocol ICMP, and its checksum is computed after all
\* of those fields are written: the checksum recomputed over the finished
\* header, stored checksum included, is 0.
C14_Ipv4HeaderWellFormed ==
    b_pc = "built" =>
        LET hdr == SubSeq(b_buff, 1, 20) IN
        /\ hdr[1] \div 16 = 4
        /\ hdr[1] % 16 = 5
        /\ (hdr[7] \div 64) % 2 = 1
        /\ hdr[9] = 64
        /\ GetU16(hdr, 2) = Len(b_buff)
        /\ hdr[10] = 1
        /\ Finalize(SumWords(hdr, 0, -1)) = 0

\* A header was built whose checksum field is not zero and whose source and
\* destination differ.
C14_Witness ==
    /\ b_pc = "built"
    /\ GetU16(b_buff, 10) # 0
    /\ b_in.src_ipv4 # b_in.dst_ipv4
    /\ SubSeq(b_buff, 13, 16) = b_in.src_ipv4

\* C17: the ICMP echo request built by send_icmp_ping_packet has type 8 and
\* code 0, an identifier and a sequence number that are both values drawn
\* from the random generator for this probe, a payload whose first 8 bytes
\* are the send-time seconds in big-endian byte order, and a checksum
\* computed after all of them are written (the ICMP message sums to 0).
C17_EchoRequestWellFormed ==
    b_pc = "built" =>
        LET icmp == SubSeq(b_buff, IPV4_HEADER_SIZE + 1, Len(b_buff)) IN
        /\ icmp[1] = 8
        /\ icmp[2] = 0
        /\ \E i \in DOMAIN b_in.rng : GetU16(icmp, 4) = b_in.rng[i]
        /\ \E i \in DOMAIN b_in.rng : GetU16(icmp, 6) = b_in.rng[i]
        /\ SubSeq(icmp, ICMP_HEADER_SIZE + 1, ICMP_HEADER_SIZE + 8) = b_in.tv_sec
        /\ Finalize(SumWords(icmp, 0, -1)) = 0

\* C18: the SYN probe built by tcp_syn_scan is a well-formed TCP segment:
\* a 20-byte header whose data-offset field is 5 words, only the SYN flag
\* set, window 2048, the given source and destination ports, and a checksum
\* written last that validates against the pseudo-header of the same source
\* address, destination address and the TCP protocol number; the channel
\* it is sent on was opened with the TCP protocol.
C18_SynSegmentWellFormed ==
    s_packet # <<>> =>
        /\ Len(s_packet) = 20
        /\ s_packet[13] \div 16 = 5
        /\ s_packet[14] = TcpFlagSYN
        /\ GetU16(s_packet, 14) = 2048
        /\ GetU16(s_packet, 0) = s_args.port_src
        /\ GetU16(s_packet, 2) = s_args.port_dst
        /\ Finalize(PseudoHeaderSum(s_args.ipv4_src, s_args.ipv4_dst, 6, Len(s_packet))
                        + SumWords(s_packet, 0, -1)) = 0
        /\ s_protocol = "Tcp"

\* C19: a probe is transmitted again only when the send call itself
\* fails, for at most DEFAULT_MAXLOOP attempts in total, and never after a
\* send has succeeded: a tcp_syn_scan call whose channel opened makes at
\* most one successful transmission, and it ends without one only after
\* DEFAULT_MAXLOOP failed attempts.
C19_OneSuccessfulTransmission ==
    /\ s_sent <= 1
    /\ s_attempts <= DEFAULT_MAXLOOP
    /\ s_sent = 1 => s_attempts >= 1
    /\ (s_pc \in {"returned", "panicked"} /\ s_chan = "ok" /\ s_sent = 0)
           => s_attempts = DEFAULT_MAXLOOP

(***************************************************************************)
(* Port lists.                                                             *)
(***************************************************************************)
\* A 16-bit number: decimal digits only, value at most 65535.
C20_IsPort(s) ==
    /\ s # <<>>
    /\ \A i \in 1..Len(s) : IsDigit(s[i])
    /\ DigitsValue(s, 0, U16Max) <= U16Max

\* What one item of a port list contributes under the grammar "a number n
\* or an inclusive range a-b".
C20_Item(item) ==
    LET t == Trim(item)
        parts == Split(t, "-")
    IN IF C20_IsPort(t) THEN Ok(<<DigitsValue(t, 0, U16Max)>>)
       ELSE IF Len(parts) = 2 /\ C20_IsPort(parts[1]) /\ C20_IsPort(parts[2])
            THEN LET a == DigitsValue(parts[1], 0, U16Max)
                     b == DigitsValue(parts[2], 0, U16Max)
                 IN Ok(IF a > b THEN <<>> ELSE [i \in 1..(b - a + 1) |-> a + i - 1])
       ELSE Err("not a port or range")

\* The concatenation, in list order, of what the items contribute.
RECURSIVE C20_Concat(_)
C20_Concat(items) ==
    IF items = <<>> THEN <<>> ELSE C20_Item(Head(items)).val \o C20_Concat(Tail(items))

C20_AllItemsValid(items) == \A i \in 1..Len(items) : IsOk(C20_Item(items[i]))

\* A parse result agrees with the grammar on the list.
C20_Agrees(result, ports, items) ==
    IF C20_AllItemsValid(items)
    THEN IsOk(result) /\ ports = C20_Concat(items)
    ELSE result.kind = "Err"

\* C20: a comma-separated port list parses to the concatenation, in list
\* order, of its items (n gives [n]; a-b gives a..b inclusive, nothing when
\* a > b, and 65535 is included); the `ports` directive, the `sslports`
\* directive and the unprefixed items of the Exclude list all follow this
\* grammar, and an item that is not a 16-bit number or range makes the
\* result an error.
C20_PortListGrammar ==
    /\ q_ports # NoResult => C20_Agrees(q_ports, q_ports.val, q_items)
    /\ q_sslports # NoResult => C20_Agrees(q_sslports, q_sslports.val, q_items)
    /\ q_exclude # NoResult
           => C20_Agrees(q_exclude, IF IsOk(q_exclude) THEN q_exclude.val.ports ELSE <<>>, q_items)

(***************************************************************************)
(* Target construction.                                                    *)
(***************************************************************************)
\* An address that Host::new accepts: global, or routed by some interface.
C21_Valid(addr) == is_global_x("v4", addr) \/ g_source[addr] = "some"

\* C21: every Target a constructor produces holds hosts of one family:
\* Target::new and Target::from_subnet give Ipv4 with hosts6 empty,
\* Target::new6 gives Ipv6 with hosts empty.  from_subnet is
\* all-or-nothing: when every enumerated address is valid, hosts holds one
\* Host per address, in enumeration order, each with the same ports; when
\* the subnet is invalid or some address fails validation, the call
\* returns that error and no Target.
C21_TargetOneFamily ==
    g_pc = "done" =>
        /\ g_op = "new"
               => g_result = Ok([target_type |-> "Ipv4", hosts |-> g_hosts, hosts6 |-> <<>>])
        /\ g_op = "new6"
               => g_result = Ok([target_type |-> "Ipv6", hosts |-> <<>>, hosts6 |-> g_hosts])
        /\ (g_op = "from_subnet" /\ ~IsOk(g_pool)) => g_result = g_pool
        /\ (g_op = "from_subnet" /\ IsOk(g_pool)) =>
               LET pool == g_pool.val IN
               IF \A i \in 1..Len(pool) : C21_Valid(pool[i])
               THEN /\ IsOk(g_result)
                    /\ g_result.val.target_type = "Ipv4"
                    /\ g_result.val.hosts6 = <<>>
                    /\ Len(g_result.val.hosts) = Len(pool)
                    /\ \A i \in 1..Len(pool) :
                           /\ g_result.val.hosts[i].addr = pool[i]
                           /\ g_result.val.hosts[i].ports = HostPorts(g_ports)
               ELSE /\ g_result.kind = "Err"
                    /\ g_result.val = <<>>
                    /\ LET first == CHOOSE i \in 1..Len(pool) :
                                        /\ ~C21_Valid(pool[i])
                                        /\ \A j \in 1..(i - 1) : C21_Valid(pool[j])
                       IN g_result = Host_new("v4", pool[first], g_ports, g_source[pool[first]])

\* from_subnet enumerated a valid address and then one without a source
\* interface, and returned IllegalTarget.
C21_Witness ==
    /\ g_pc = "done"
    /\ g_op = "from_subnet"
    /\ IsOk(g_pool)
    /\ Len(g_pool.val) >= 2
    /\ C21_Valid(g_pool.val[1])
    /\ ~C21_Valid(g_pool.val[2])
    /\ g_result = Err("IllegalTarget")

(***************************************************************************)
(* Blocks of the service-probes file.                                      *)
(***************************************************************************)
\* The lines nsp_parser reads, and among them the Probe lines.
C22_Read == {i \in 1..Len(n_lines) : ~Skipped(n_lines[i])}
C22_Probes == {i \in C22_Read : StartsWith(n_lines[i], Str_Probe)}
C22_Probe(k) == CHOOSE i \in C22_Probes : Cardinality({j \in C22_Probes : j <= i}) = k

\* The lines whose nearest preceding Probe line is the k-th one that begin
\* with the keyword, in file order.
C22_Block(k, keyword) ==
    {i \in C22_Read :
        /\ i > C22_Probe(k)
        /\ \A j \in C22_Probes : j > C22_Probe(k) => i < j
        /\ StartsWith(n_lines[i], keyword)}
C22_InOrder(S) ==
    [j \in 1..Cardinality(S) |-> CHOOSE i \in S : Cardinality({h \in S : h <= i}) = j]
C22_Last(S) == CHOOSE i \in S : \A j \in S : j <= i

\* The rules of the k-th block, and a directive of it read by `read`.
C22_Rules(k, keyword) ==
    LET at == C22_InOrder(C22_Block(k, keyword)) IN
    [j \in 1..Len(at) |-> MatchOf(n_lines[at[j]]).val]
C22_Ports(k, keyword) ==
    LET S == C22_Block(k, keyword) IN
    IF S = {} THEN None ELSE Some(PortsOf(n_lines[C22_Last(S)]).val)
C22_U64(k, keyword) ==
    LET S == C22_Block(k, keyword) IN
    IF S = {} THEN None ELSE Some(U64Of(n_lines[C22_Last(S)]).val)
C22_Fallback(k) ==
    LET S == C22_Block(k, Str_fallback) IN
    IF S = {} THEN None ELSE Some(SliceFrom(Split(n_lines[C22_Last(S)], " "), 1))

\* C22: in the result of nsp_parser every match, softmatch, ports,
\* sslports, totalwaitms, tcpwrappedms, rarity and fallback directive
\* belongs to the entry of the nearest preceding Probe line and to no
\* other: the per-block fields are reset at each Probe line, a block
\* without a directive has it empty/None, and the rules keep file order.
C22_DirectivesStayInBlock ==
    (n_pc \in {"parsed", "checked"} /\ IsOk(n_result)) =>
        /\ Len(n_result.val) = Cardinality(C22_Probes)
        /\ \A k \in 1..Len(n_result.val) :
               LET e == n_result.val[k] IN
               /\ e.matchs = C22_Rules(k, Str_match)
               /\ e.softmatchs = C22_Rules(k, Str_softmatch)
               /\ e.ports = C22_Ports(k, Str_ports)
               /\ e.sslports = C22_Ports(k, Str_sslports)
               /\ e.totalwaitms = C22_U64(k, Str_totalwaitms)
               /\ e.tcpwrappedms = C22_U64(k, Str_tcpwrappedms)
               /\ e.rarity = C22_U64(k, Str_rarity)
               /\ e.fallback = C22_Fallback(k)

(***************************************************************************)
(* Lines the parser ignores.                                               *)
(***************************************************************************)
\* The lines of the input that begin with the keyword and come after some
\* Probe line.
C23_Lines(keyword) ==
    {i \in 1..Len(n_lines) :
        /\ StartsWith(n_lines[i], keyword)
        /\ \E j \in 1..(i - 1) : StartsWith(n_lines[j], Str_Probe)}
\* The second word of a line: the probe's protocol aside, the name of a
\* rule's service.
C23_Word(line, n) == Split(line, " ")[n]
\* The rules of the result, as (entry, position) pairs, per list.
C23_Matchs ==
    {<<k, j>> \in (1..Len(n_result.val)) \X (1..MaxLines) :
        j <= Len(n_result.val[k].matchs)}
C23_Softmatchs ==
    {<<k, j>> \in (1..Len(n_result.val)) \X (1..MaxLines) :
        j <= Len(n_result.val[k].softmatchs)}

\* C23: nsp_parser ignores only comment lines (beginning with `#`), blank
\* lines and the Exclude directive: every Probe line has its entry, in
\* file order, and every match and softmatch line of a block is a rule of
\* the result, also when its payload or pattern holds `#` or `Exclude`.
C23_OnlyCommentsIgnored ==
    (n_pc \in {"parsed", "checked"} /\ IsOk(n_result)) =>
        LET probes == {i \in 1..Len(n_lines) : StartsWith(n_lines[i], Str_Probe)} IN
        /\ Len(n_result.val) = Cardinality(probes)
        /\ \A i \in probes :
               LET k == Cardinality({j \in probes : j <= i}) IN
               k <= Len(n_result.val)
                   => n_result.val[k].probe.probename = C23_Word(n_lines[i], 3)
        /\ \A i \in C23_Lines(Str_match) :
               LET svc == C23_Word(n_lines[i], 2) IN
               Cardinality({h \in C23_Lines(Str_match) : C23_Word(n_lines[h], 2) = svc})
                   <= Cardinality({c \in C23_Matchs :
                                      n_result.val[c[1]].matchs[c[2]].service = svc})
        /\ \A i \in C23_Lines(Str_softmatch) :
               LET svc == C23_Word(n_lines[i], 2) IN
               Cardinality({h \in C23_Lines(Str_softmatch) : C23_Word(n_lines[h], 2) = svc})
                   <= Cardinality({c \in C23_Softmatchs :
                                      n_result.val[c[1]].softmatchs[c[2]].service = svc})

(***************************************************************************)
(* The single Exclude directive.                                           *)
(***************************************************************************)
\* The lines of the file that start with `Exclude`.
C24_ExcludeLines == {i \in 1..Len(ex_lines) : StartsWith(ex_lines[i], Str_Exclude)}

\* C24: nsp_exclued_parser reads the single Exclude directive: its result
\* on a file is its result on the first line that starts with `Exclude`
\* alone (later Exclude lines and all other lines change nothing), and a
\* file with no Exclude line gives Ok with ports, tcp_ports and udp_ports
\* all empty.
C24_FirstExcludeLineOnly ==
    ex_pc = "done" =>
        IF C24_ExcludeLines = {}
        THEN ex_result = Ok([ports |-> <<>>, tcp_ports |-> <<>>, udp_ports |-> <<>>])
        ELSE LET first == CHOOSE i \in C24_ExcludeLines : \A j \in C24_ExcludeLines : i <= j
             IN ex_result = nsp_exclued_parser(<<ex_lines[first]>>)

\* `Exclude 53` followed by `Exclude T:9100`: only port 53 is excluded.
C24_Witness ==
    /\ ex_pc = "done"
    /\ ex_lines = <<ExcludeLine(<<E_53>>), ExcludeLine(<<E_T9100>>)>>
    /\ ex_result = Ok([ports |-> <<53>>, tcp_ports |-> <<>>, udp_ports |-> <<>>])

(***************************************************************************)
(* The ping verdict on any matched response.                               *)
(***************************************************************************)
\* C25: send_icmp_ping_packet returns Up only if the matched response
\* parses as an IPv4 packet carrying an ICMP echo reply with code 0; every
\* other matched response (too short for IPv4 or ICMP, another protocol,
\* an echo reply with a code other than 0, a destination-unreachable of
\* any code, any other type) yields Ok(Down) and never an error; whatever
\* the transport returned without error, the returned RTT is the RTT the
\* transport reported.
C25_UpOnlyOnEchoReply ==
    (p_pc = "done" /\ p_send.kind = "Ok") =>
        /\ IsOk(p_result)
        /\ p_result.val.rtt = p_send.rtt
        /\ p_result.val.status \in {"Up", "Down"}
        /\ p_result.val.status = "Up"
               <=> /\ p_send.ret.some
                   /\ p_send.ret.pkt.len >= 20
                   /\ p_send.ret.pkt.proto = 1
                   /\ p_send.ret.pkt.len - 20 >= 4
                   /\ p_send.ret.pkt.icmp_type = 0
                   /\ p_send.ret.pkt.icmp_code = 0

\* A matched TCP packet whose bytes at the ICMP type and code places are
\* 0 and 0 was answered Down with the transport's RTT.
C25_Witness ==
    /\ p_pc = "done"
    /\ p_send.kind = "Ok"
    /\ p_send.ret.some
    /\ p_send.ret.pkt.proto = 6
    /\ p_send.ret.pkt.icmp_type = 0
    /\ p_send.ret.pkt.icmp_code = 0
    /\ p_send.rtt = "rtt"
    /\ p_result = Ok([status |-> "Down", rtt |-> "rtt"])

====
